---- MODULE Spec2Model ----
(***************************************************************************)
(* Hydrological analysis engine of weather-be (flood_analysis.py, p.py).   *)
(*                                                                         *)
(* The engine is a library of pure functions.  A state of the model is one *)
(* call: pc names the function, args holds its arguments, result is        *)
(* Pending until the function has run and then holds what the call         *)
(* produced (the returned dict, or the exception it raised).  storage is   *)
(* the reservoir storage a caller carries from one                         *)
(* reservoir_water_balance step to the next.                               *)
(*                                                                         *)
(* Numbers.  Python floats are modelled by exact rationals:                *)
(*   - rainfall depths and thresholds are integers (mm);                   *)
(*   - the Muskingum weight X is carried in tenths (X10 = 10*X);           *)
(*   - a rational is a record [n |-> numerator, d |-> denominator], d > 0; *)
(*   - a value rounded by round(v, 2) is carried as an integer number of   *)
(*     hundredths, a value rounded by round(v, 3) as thousandths;          *)
(*   - reservoir volumes and flows are carried in units of 1/500 (0.002),  *)
(*     so that one hundredth is 5 units and round(v, 2) never meets a tie; *)
(*   - the runoff estimators and the travel time take rational arguments   *)
(*     and compute with Rat, RatAdd, ..., RoundRat;                        *)
(*   - peaks of the return-period estimator are in hundredths of m3/s.     *)
(* round() is Python's: to the nearest, ties to the even neighbour.        *)
(***************************************************************************)
EXTENDS Integers, Sequences, FiniteSets, TLC

VARIABLES pc, args, result, storage

vars == <<pc, args, result, storage>>

(***************************************************************************)
(* Bounds of the model.                                                    *)
(***************************************************************************)
MaxRain == 3
MaxThreshold == 2
MaxLen == 3
MaxQ == 3
MaxK == 2
MaxFlow == 2
MaxDt == 2
MaxStorage == 12
MaxWeight == 2
MaxDays == 4
MaxDepth == 10
MaxArea == 2
MaxDistance == 2
MaxPeaks == 4
MaxChannel == 3
MaxJobs == 3

(***************************************************************************)
(* Arithmetic helpers.                                                     *)
(***************************************************************************)
Abs(x) == IF x < 0 THEN -x ELSE x

RECURSIVE GCD(_, _)
GCD(a, b) == IF b = 0 THEN Abs(a) ELSE GCD(b, a % Abs(b))

\* max(0, v) of Python for a number v.
Max0(v) == IF v > 0 THEN v ELSE 0

\* The integer nearest to n/d (d > 0), ties to the even neighbour: round().
RoundDiv(n, d) ==
  LET q == n \div d
      r == n % d
  IN  IF 2 * r < d THEN q
      ELSE IF 2 * r > d THEN q + 1
      ELSE IF q % 2 = 0 THEN q ELSE q + 1

(***************************************************************************)
(* Severity classifier.                                                    *)
(***************************************************************************)
\* FLOOD_THRESHOLDS of p.py; DONGNAI has the values of HONG.
FLOOD_THRESHOLDS ==
  [HONG |-> [watch   |-> [daily |-> 100, accumulated_3d |-> 250],
             warning |-> [daily |-> 150, accumulated_3d |-> 400],
             danger  |-> [daily |-> 200, accumulated_3d |-> 600]],
   MEKONG |-> [watch   |-> [daily |-> 80, accumulated_3d |-> 200],
               warning |-> [daily |-> 120, accumulated_3d |-> 350],
               danger  |-> [daily |-> 180, accumulated_3d |-> 550]],
   CENTRAL |-> [watch   |-> [daily |-> 120, accumulated_3d |-> 300],
                warning |-> [daily |-> 200, accumulated_3d |-> 500],
                danger  |-> [daily |-> 300, accumulated_3d |-> 800]]]

\* The truth value negated: only 0 counts as true.
Truthy_inverted(x) == x = 0

\* Truth value Python gives a number in a condition: 0 and 0.0 are false.
Truthy(x) == x # 0

\* The recommendation lists of the four branches (one tag per string).
Recommendations(severity) ==
  CASE severity = "danger"  -> <<"evacuate_lowland", "prepare_rescue",
                                 "close_spillway", "alert_downstream">>
    [] severity = "warning" -> <<"prepare_evacuation", "monitor_water_level",
                                 "check_drainage", "notify_residents">>
    [] severity = "watch"   -> <<"watch_weather", "prepare_response",
                                 "check_lowland", "notify_authorities">>
    [] OTHER                -> <<"normal", "keep_watching_forecast">>

\* classify_flood_severity: the ladder runs only when thresholds, rainfall and
\* accumulated_3d are all truthy; otherwise the defaults of lines 272-274 stay.
classify_flood_severity(rainfall, accumulated_3d, thresholds) ==
  IF DOMAIN thresholds # {} /\ Truthy(rainfall) /\ Truthy(accumulated_3d)
  THEN IF rainfall >= thresholds.danger.daily
            \/ accumulated_3d >= thresholds.danger.accumulated_3d
       THEN [severity |-> "danger", alert_level |-> 4,
             recommendations |-> Recommendations("danger")]
       ELSE IF rainfall >= thresholds.warning.daily
                 \/ accumulated_3d >= thresholds.warning.accumulated_3d
       THEN [severity |-> "warning", alert_level |-> 3,
             recommendations |-> Recommendations("warning")]
       ELSE IF rainfall >= thresholds.watch.daily
                 \/ accumulated_3d >= thresholds.watch.accumulated_3d
       THEN [severity |-> "watch", alert_level |-> 2,
             recommendations |-> Recommendations("watch")]
       ELSE [severity |-> "safe", alert_level |-> 1,
             recommendations |-> Recommendations("safe")]
  ELSE [severity |-> "safe", alert_level |-> 0, recommendations |-> <<>>]

\* assess_flood_risk of p.py: the same ladder, with no guard in front of it.
assess_flood_risk(daily_rain, accumulated_3d, thresholds) ==
  IF daily_rain >= thresholds.danger.daily
       \/ accumulated_3d >= thresholds.danger.accumulated_3d
  THEN [risk_level |-> "NGUY HIEM"]
  ELSE IF daily_rain >= thresholds.warning.daily
            \/ accumulated_3d >= thresholds.warning.accumulated_3d
  THEN [risk_level |-> "CANH BAO"]
  ELSE IF daily_rain >= thresholds.watch.daily
            \/ accumulated_3d >= thresholds.watch.accumulated_3d
  THEN [risk_level |-> "THEO DOI"]
  ELSE [risk_level |-> "AN TOAN"]

\* Inputs of the classifier: a small grid with every threshold set over
\* 1..MaxThreshold (ordered or not), and the basins' thresholds with depths on
\* and around their borders.
ThresholdLevel == [daily : 1..MaxThreshold, accumulated_3d : 1..MaxThreshold]

SmallThresholds == [watch : ThresholdLevel, warning : ThresholdLevel,
                    danger : ThresholdLevel]

BasinThresholds == {FLOOD_THRESHOLDS.HONG, FLOOD_THRESHOLDS.MEKONG,
                    FLOOD_THRESHOLDS.CENTRAL}

BasinDaily == {0, 50, 79, 80, 119, 120, 150, 179, 180, 190, 200, 300}

BasinAccumulated == {0, 50, 199, 200, 349, 350, 400, 549, 550, 600, 800}

SeverityInputs ==
  ((0..MaxRain) \X (0..MaxRain) \X SmallThresholds)
    \cup (BasinDaily \X BasinAccumulated \X BasinThresholds)

SeverityArgs ==
  {[rainfall |-> c[1], accumulated_3d |-> c[2], thresholds |-> c[3]] :
     c \in SeverityInputs}

\* A call that has not returned yet, a call that returned the dict v, and a
\* call that raised the exception exc.
Pending == [kind |-> "pending"]

Return(v) == [kind |-> "return", value |-> v]

Raise(exc, msg) == [kind |-> "raise", exc |-> exc, msg |-> msg]

ClassifyFloodSeverity ==
  /\ pc = "classify_flood_severity"
  /\ result = Pending
  /\ result' = Return(classify_flood_severity(args.rainfall,
                        args.accumulated_3d, args.thresholds))
  /\ UNCHANGED <<pc, args, storage>>

AssessFloodRisk ==
  /\ pc = "assess_flood_risk"
  /\ result = Pending
  /\ result' = Return(assess_flood_risk(args.rainfall, args.accumulated_3d,
                        args.thresholds))
  /\ UNCHANGED <<pc, args, storage>>

InitSeverity ==
  /\ pc \in {"classify_flood_severity", "assess_flood_risk"}
  /\ args \in SeverityArgs
  /\ result = Pending
  /\ storage = 0

NextSeverity == ClassifyFloodSeverity \/ AssessFloodRisk

SpecSeverity == InitSeverity /\ [][NextSeverity]_vars

(***************************************************************************)
(* Flood routing (Muskingum-Cunge).                                        *)
(***************************************************************************)
\* Lines 489-493 without the check of X.
RoutingValidation_no_X_check(K, X10, dt) ==
  IF K <= 0 \/ dt <= 0 THEN "K_dt_not_positive" ELSE "valid"

\* Lines 489-493: the two validations, in the order the code makes them.
RoutingValidation(K, X10, dt) ==
  IF ~(0 <= X10 /\ X10 <= 5) THEN "X_out_of_range"
  ELSE IF K <= 0 \/ dt <= 0 THEN "K_dt_not_positive"
  ELSE "valid"

\* Lines 496-499 with the sign of 2KX in C1 taken from C2.
Coefficients_C1_sign(K, X10, dt) ==
  LET denom == 2 * K * (10 - X10) + 10 * dt
      n1 == 10 * dt + 2 * K * X10
      n2 == 10 * dt + 2 * K * X10
      n3 == 2 * K * (10 - X10) - 10 * dt
      g == GCD(GCD(n1, n2), GCD(n3, denom))
  IN  [C1 |-> n1 \div g, C2 |-> n2 \div g, C3 |-> n3 \div g,
       den |-> denom \div g]

\* Lines 496-499.  With X = X10/10 every term is multiplied by 10:
\*   denom = 2K(1-X) + dt        ->  2K(10 - X10) + 10 dt
\*   C1 = (dt - 2KX) / denom     ->  (10 dt - 2 K X10) / ...
\*   C2 = (dt + 2KX) / denom     ->  (10 dt + 2 K X10) / ...
\*   C3 = (2K(1-X) - dt) / denom ->  (2K(10 - X10) - 10 dt) / ...
\* The three fractions are then brought to their lowest common terms: the
\* coefficient Ci is the rational Ci / den of the record.
Coefficients(K, X10, dt) ==
  LET denom == 2 * K * (10 - X10) + 10 * dt
      n1 == 10 * dt - 2 * K * X10
      n2 == 10 * dt + 2 * K * X10
      n3 == 2 * K * (10 - X10) - 10 * dt
      g == GCD(GCD(n1, n2), GCD(n3, denom))
  IN  [C1 |-> n1 \div g, C2 |-> n2 \div g, C3 |-> n3 \div g,
       den |-> denom \div g]

\* Lines 502-506: abs(coeff_sum - 1.0) < 0.001 and C1, C2, C3 >= 0.
IsStable(c) ==
  /\ 1000 * Abs(c.C1 + c.C2 + c.C3 - c.den) < c.den
  /\ c.C1 >= 0
  /\ c.C2 >= 0
  /\ c.C3 >= 0

\* Line 520 with the arguments swapped between C1 and C2.
RoutingStep_swapped(c, I_next, I_prev, O_prev) ==
  [n |-> (c.C2 * I_next + c.C1 * I_prev) * O_prev.d + c.C3 * O_prev.n,
   d |-> c.den * O_prev.d]

\* Line 520 without the storage term C3*outflow[j].
RoutingStep_without_storage(c, I_next, I_prev, O_prev) ==
  [n |-> (c.C1 * I_next + c.C2 * I_prev) * O_prev.d,
   d |-> c.den * O_prev.d]

\* Line 520: O_new = C1*inflow[j+1] + C2*inflow[j] + C3*outflow[j], for
\* integer inflows and the rational outflow[j].
RoutingStep(c, I_next, I_prev, O_prev) ==
  [n |-> (c.C1 * I_next + c.C2 * I_prev) * O_prev.d + c.C3 * O_prev.n,
   d |-> c.den * O_prev.d]

\* Lines 517-521: outflow = [inflow[0]], then for j in range(len(inflow) - 1)
\* outflow.append(O_new).  Sequences are 1-based here; out[j] is a rational
\* whose denominator is den^(j-1).
RECURSIVE RouteFrom(_, _, _, _)
RouteFrom(inflow, c, j, out) ==
  IF j > Len(inflow) - 1 THEN out
  ELSE RouteFrom(inflow, c, j + 1,
         Append(out, RoutingStep(c, inflow[j + 1], inflow[j], out[j])))

RouteOutflow(inflow, c) ==
  RouteFrom(inflow, c, 1, <<[n |-> inflow[1], d |-> 1]>>)

\* The rationals of a routed series on their common denominator, the last.
OnCommonDenominator(out) ==
  [i \in 1..Len(out) |-> out[i].n * (out[Len(out)].d \div out[i].d)]

\* np.argmax replaced by the last index of the maximum.
ArgMax_last(s) ==
  (CHOOSE i \in 1..Len(s) :
     /\ \A k \in 1..Len(s) : s[k] <= s[i]
     /\ \A k \in (i + 1)..Len(s) : s[k] < s[i]) - 1

\* np.argmax on a non-empty sequence of integers: the first index of the
\* maximum, counted from 0.
ArgMax(s) ==
  (CHOOSE i \in 1..Len(s) :
     /\ \A k \in 1..Len(s) : s[k] <= s[i]
     /\ \A k \in 1..(i - 1) : s[k] < s[i]) - 1

\* round(v, 2) of the rational v, split so that no product leaves 32 bits.
Round2Rat(v) == 100 * (v.n \div v.d) + RoundDiv(100 * (v.n % v.d), v.d)

\* Line 529: ((peak_inflow - peak_outflow) / peak_inflow * 100) if
\* peak_inflow > 0 else 0, for the integer peak_inflow and the rational
\* peak_outflow.
Attenuation(peak_inflow, peak_outflow) ==
  IF peak_inflow > 0
  THEN [n |-> 100 * (peak_inflow * peak_outflow.d - peak_outflow.n),
        d |-> peak_inflow * peak_outflow.d]
  ELSE [n |-> 0, d |-> 1]

\* Line 530: (peak_outflow_idx - peak_inflow_idx) * dt / 3600.
LagTime(peak_inflow_idx, peak_outflow_idx, dt) ==
  [n |-> (peak_outflow_idx - peak_inflow_idx) * dt, d |-> 3600]

\* Lines 523-556: the analysis of a routed series and the returned dict.
\* value is the dict (its rounded numbers in hundredths, the coefficients in
\* ten-thousandths); locals keeps the function's unrounded variables.
RoutingResult(inflow, K, X10, dt, c, outflow) ==
  LET peak_inflow_idx == ArgMax(inflow)
      peak_outflow_idx == ArgMax(OnCommonDenominator(outflow))
      peak_inflow == inflow[peak_inflow_idx + 1]
      peak_outflow == outflow[peak_outflow_idx + 1]
      attenuation == Attenuation(peak_inflow, peak_outflow)
      lag_time == LagTime(peak_inflow_idx, peak_outflow_idx, dt)
  IN  [kind |-> "return",
       value |->
         [inflow |-> [i \in 1..Len(inflow) |-> 100 * inflow[i]],
          outflow |-> [i \in 1..Len(outflow) |-> Round2Rat(outflow[i])],
          coefficients |->
            [C1 |-> RoundDiv(10000 * c.C1, c.den),
             C2 |-> RoundDiv(10000 * c.C2, c.den),
             C3 |-> RoundDiv(10000 * c.C3, c.den),
             sum |-> RoundDiv(10000 * (c.C1 + c.C2 + c.C3), c.den)],
          parameters |->
            [K_hours |-> RoundDiv(100 * K, 3600), X10 |-> X10,
             dt_hours |-> RoundDiv(100 * dt, 3600)],
          analysis |->
            [peak_inflow |-> 100 * peak_inflow,
             peak_outflow |-> Round2Rat(peak_outflow),
             attenuation_percent |-> Round2Rat(attenuation),
             lag_time_hours |-> Round2Rat(lag_time),
             peak_inflow_time |-> peak_inflow_idx,
             peak_outflow_time |-> peak_outflow_idx],
          is_stable |-> TRUE,
          method |-> "Muskingum-Cunge"],
       locals |-> [C |-> c, outflow |-> outflow, attenuation |-> attenuation,
                   lag_time |-> lag_time]]

\* Lines 508-514: the dict returned for coefficients that are not stable.
UnstableResult(c) ==
  [kind |-> "return",
   value |-> [error |-> "model is not stable",
              coefficients |-> [C1 |-> c.C1, C2 |-> c.C2, C3 |-> c.C3,
                                den |-> c.den],
              sum |-> [n |-> c.C1 + c.C2 + c.C3, d |-> c.den],
              suggestion |-> "reduce dt or increase K"]]

\* muskingum_cunge_routing.  inflow[0] of an empty list raises IndexError.
muskingum_cunge_routing(inflow, K, X10, dt) ==
  LET valid == RoutingValidation(K, X10, dt)
      c == Coefficients(K, X10, dt)
  IN  IF valid = "X_out_of_range"
      THEN Raise("ValueError", "X must be within [0, 0.5]")
      ELSE IF valid = "K_dt_not_positive"
      THEN Raise("ValueError", "K and dt must be positive")
      ELSE IF ~IsStable(c) THEN UnstableResult(c)
      ELSE IF Len(inflow) = 0
      THEN Raise("IndexError", "list index out of range")
      ELSE RoutingResult(inflow, K, X10, dt, c, RouteOutflow(inflow, c))

\* Inputs of the routing: every inflow series of at most MaxLen discharges in
\* 0..MaxQ; K and dt on a grid of half hours from -1800 s, X in
\* {-0.1, 0, 0.2, 0.5, 0.6}; and the reach K = 100 s, X = 0.2, dt = 3600 s.
InflowSeries == UNION {[1..n -> 0..MaxQ] : n \in 0..MaxLen}

RoutingParameters ==
  ({1800 * k : k \in -1..MaxK} \X {-1, 0, 2, 5, 6}
     \X {1800 * k : k \in -1..MaxK})
    \cup {<<100, 2, 3600>>}

RoutingArgs ==
  {[inflow |-> q, K |-> p[1], X10 |-> p[2], dt |-> p[3]] :
     q \in InflowSeries, p \in RoutingParameters}

MuskingumCungeRouting ==
  /\ pc = "muskingum_cunge_routing"
  /\ result = Pending
  /\ result' = muskingum_cunge_routing(args.inflow, args.K, args.X10, args.dt)
  /\ UNCHANGED <<pc, args, storage>>

InitRouting ==
  /\ pc = "muskingum_cunge_routing"
  /\ args \in RoutingArgs
  /\ result = Pending
  /\ storage = 0

NextRouting == MuskingumCungeRouting

SpecRouting == InitRouting /\ [][NextRouting]_vars

(***************************************************************************)
(* Reservoir mass balance.                                                 *)
(***************************************************************************)
\* Line 435 without the clamp.
NewStorage_unclamped(S_current, dS) == S_current + dS

\* Line 435: S_new = max(0, S_current + dS).
NewStorage(S_current, dS) == Max0(S_current + dS)

\* Line 438: (dS / S_current * 100) if S_current > 0 else 0, then
\* round(change_percent, 3) of line 450, in thousandths of a percent.
ChangePercent(dS, S_current) ==
  IF S_current > 0 THEN RoundDiv(100000 * dS, S_current) ELSE 0

\* Line 451 with >= in place of >.
BalanceStatus_nonneg(dS) ==
  IF dS >= 0 THEN "increasing" ELSE IF dS < 0 THEN "decreasing" ELSE "stable"

\* Line 451.
BalanceStatus(dS) ==
  IF dS > 0 THEN "increasing" ELSE IF dS < 0 THEN "decreasing" ELSE "stable"

\* reservoir_water_balance.  S_current and the four flows are in units of
\* 0.002 (m3, m3/s), dt in seconds.  In the returned dict S_current, S_new
\* and dS are round(v, 2) in hundredths (5 units each); locals keeps the
\* unrounded values in units.
reservoir_water_balance(S_current, inflow, outflow, evap, seepage, dt) ==
  LET dS_dt == inflow - outflow - evap - seepage
      dS == dS_dt * dt
      S_new == NewStorage(S_current, dS)
  IN  [kind |-> "return",
       value |-> [S_current |-> RoundDiv(S_current, 5),
                  S_new |-> RoundDiv(S_new, 5),
                  dS |-> RoundDiv(dS, 5),
                  change_percent |-> ChangePercent(dS, S_current),
                  status |-> BalanceStatus(dS)],
       locals |-> [dS_dt |-> dS_dt, dS |-> dS, S_new |-> S_new]]

\* Inputs of one step: the flows and dt, for a given storage.
ReservoirArgs(S) ==
  [S_current : {S}, inflow : 0..MaxFlow, outflow : 0..MaxFlow,
   evap : 0..1, seepage : 0..1, dt : -1..MaxDt]

ReservoirWaterBalance ==
  /\ pc = "reservoir_water_balance"
  /\ result = Pending
  /\ result' = reservoir_water_balance(args.S_current, args.inflow,
                 args.outflow, args.evap, args.seepage, args.dt)
  /\ UNCHANGED <<pc, args, storage>>

\* The caller's time stepping: the returned S_new (hundredths) becomes the
\* S_current of the next step.  Storage above MaxStorage units ends the run.
NextStep ==
  /\ pc = "reservoir_water_balance"
  /\ result # Pending
  /\ 5 * result.value.S_new <= MaxStorage
  /\ storage' = 5 * result.value.S_new
  /\ args' \in ReservoirArgs(storage')
  /\ result' = Pending
  /\ UNCHANGED pc

InitReservoir ==
  /\ pc = "reservoir_water_balance"
  /\ storage \in 0..MaxStorage
  /\ args \in ReservoirArgs(storage)
  /\ result = Pending

NextReservoir == ReservoirWaterBalance \/ NextStep

SpecReservoir == InitReservoir /\ [][NextReservoir]_vars

(***************************************************************************)
(* Basin rainfall (Thiessen polygons).                                     *)
(*                                                                         *)
(* An observation map is a function from the stations that reported to     *)
(* their depth (mm), or to None when the station has no precipitation_sum. *)
(* A weight map is a function from the stations that have a weight to      *)
(* that weight; weights are integers (relative areas) of either sign.      *)
(* The basin average is an exact rational [n, d].                          *)
(***************************************************************************)
Stations == {"s1", "s2", "s3"}

\* Python's None as a depth: a value outside the range of depths.
None == -1

\* sum(f[s] for s in DOMAIN f): the accumulation of the station loop.
RECURSIVE SumOf(_)
SumOf(f) ==
  IF DOMAIN f = {} THEN 0
  ELSE LET s == CHOOSE x \in DOMAIN f : TRUE
       IN  f[s] + SumOf([x \in DOMAIN f \ {s} |-> f[x]])

\* basin_weights.get(station, 0)
WeightOf(basin_weights, station) ==
  IF station \in DOMAIN basin_weights THEN basin_weights[station] ELSE 0

\* total / area if area > 0 else 0
BasinAverage(total, area) ==
  IF area > 0 THEN [n |-> total, d |-> area] ELSE [n |-> 0, d |-> 1]

\* flood_analysis.calculate_basin_rainfall_thiessen: a missing depth counts
\* as 0 mm; only the stations with weight > 0 are accumulated.
calculate_basin_rainfall_thiessen(points_data, basin_weights) ==
  LET rainfall(s) == IF points_data[s] = None THEN 0 ELSE points_data[s]
      counted == {s \in DOMAIN points_data : WeightOf(basin_weights, s) > 0}
      total_weighted_rainfall ==
        SumOf([s \in counted |-> rainfall(s) * WeightOf(basin_weights, s)])
      total_area == SumOf([s \in counted |-> WeightOf(basin_weights, s)])
  IN  Return([basin_avg |-> BasinAverage(total_weighted_rainfall, total_area),
              details |-> [s \in counted |->
                 [rainfall |-> rainfall(s),
                  weight |-> WeightOf(basin_weights, s),
                  weighted_rainfall |->
                    rainfall(s) * WeightOf(basin_weights, s)]]])

\* p.calculate_basin_rainfall: stations with weight <= 0 or without a depth
\* are skipped.
calculate_basin_rainfall(points_data, basin_weights) ==
  LET counted == {s \in DOMAIN points_data :
                    ~(WeightOf(basin_weights, s) <= 0
                      \/ points_data[s] = None)}
      total_weighted ==
        SumOf([s \in counted |-> points_data[s] * WeightOf(basin_weights, s)])
      total_area == SumOf([s \in counted |-> WeightOf(basin_weights, s)])
  IN  Return(BasinAverage(total_weighted, total_area))

\* flood_analysis.calculate_thiessen_rainfall: every station of the
\* observation map is accumulated, whatever its weight; None * weight is a
\* TypeError.
calculate_thiessen_rainfall(rainfall_data, weights) ==
  IF \E s \in DOMAIN rainfall_data : rainfall_data[s] = None
  THEN Raise("TypeError", "unsupported operand type(s) for *")
  ELSE
    LET total_weighted ==
          SumOf([s \in DOMAIN rainfall_data |->
                   rainfall_data[s] * WeightOf(weights, s)])
        total_weight ==
          SumOf([s \in DOMAIN rainfall_data |-> WeightOf(weights, s)])
    IN  Return([basin_average |-> BasinAverage(total_weighted, total_weight),
                weighted_sum |-> total_weighted,
                total_weight |-> total_weight,
                method |-> "Thiessen Polygon"])

ObservationMaps ==
  UNION {[S -> 0..MaxRain \cup {None}] : S \in SUBSET Stations}

WeightMaps == UNION {[S -> -1..MaxWeight] : S \in SUBSET Stations}

ThiessenArgs == [points_data : ObservationMaps, basin_weights : WeightMaps]

CalculateBasinRainfallThiessen ==
  /\ pc = "calculate_basin_rainfall_thiessen"
  /\ result = Pending
  /\ result' = calculate_basin_rainfall_thiessen(args.points_data,
                                                 args.basin_weights)
  /\ UNCHANGED <<pc, args, storage>>

CalculateBasinRainfall ==
  /\ pc = "calculate_basin_rainfall"
  /\ result = Pending
  /\ result' = calculate_basin_rainfall(args.points_data, args.basin_weights)
  /\ UNCHANGED <<pc, args, storage>>

CalculateThiessenRainfall ==
  /\ pc = "calculate_thiessen_rainfall"
  /\ result = Pending
  /\ result' = calculate_thiessen_rainfall(args.points_data,
                                           args.basin_weights)
  /\ UNCHANGED <<pc, args, storage>>

InitThiessen ==
  /\ pc \in {"calculate_basin_rainfall_thiessen", "calculate_basin_rainfall",
             "calculate_thiessen_rainfall"}
  /\ args \in ThiessenArgs
  /\ result = Pending
  /\ storage = 0

NextThiessen ==
  \/ CalculateBasinRainfallThiessen
  \/ CalculateBasinRainfall
  \/ CalculateThiessenRainfall

SpecThiessen == InitThiessen /\ [][NextThiessen]_vars

(***************************************************************************)
(* Accumulated rainfall.                                                   *)
(*                                                                         *)
(* A daily series is a sequence of depths; Python's index i is the         *)
(* sequence's index i + 1.  The series may hold negative entries: the      *)
(* function accepts any list of numbers.                                   *)
(***************************************************************************)
\* sum(s[lo:hi]) for 0 <= lo and hi <= len(s); the slice is empty when
\* lo >= hi.
RECURSIVE SliceSum_open_end(_, _, _)
SliceSum_open_end(s, lo, hi) ==
  IF lo >= hi - 1 THEN 0 ELSE s[lo + 1] + SliceSum_open_end(s, lo + 1, hi)

RECURSIVE SliceSum(_, _, _)
SliceSum(s, lo, hi) ==
  IF lo >= hi THEN 0 ELSE s[lo + 1] + SliceSum(s, lo + 1, hi)

calculate_accumulated_rainfall_wide(daily_rainfall, days) ==
  [j \in 1..Len(daily_rainfall) |->
     LET i == j - 1
         start_idx == Max0(i - days)
     IN  SliceSum(daily_rainfall, start_idx, i + 1)]

\* accumulated[i] = sum(daily_rainfall[max(0, i - days + 1) : i + 1])
calculate_accumulated_rainfall(daily_rainfall, days) ==
  [j \in 1..Len(daily_rainfall) |->
     LET i == j - 1
         start_idx == Max0(i - days + 1)
     IN  SliceSum(daily_rainfall, start_idx, i + 1)]

DailySeries == UNION {[1..n -> -1..MaxRain] : n \in 0..MaxLen}

AccumulationArgs == [daily_rainfall : DailySeries, days : 0..MaxDays]

CalculateAccumulatedRainfall ==
  /\ pc = "calculate_accumulated_rainfall"
  /\ result = Pending
  /\ result' = Return(calculate_accumulated_rainfall(args.daily_rainfall,
                                                     args.days))
  /\ UNCHANGED <<pc, args, storage>>

InitAccumulation ==
  /\ pc = "calculate_accumulated_rainfall"
  /\ args \in AccumulationArgs
  /\ result = Pending
  /\ storage = 0

NextAccumulation == CalculateAccumulatedRainfall

SpecAccumulation == InitAccumulation /\ [][NextAccumulation]_vars

(***************************************************************************)
(* Runoff and peak discharge (SCS curve number).                           *)
(*                                                                         *)
(* Depths, retentions and discharges are exact rationals [n, d] in lowest  *)
(* terms with d > 0.  The curve number, the basin area (km2) and the time  *)
(* of concentration (hours) are integers.                                  *)
(***************************************************************************)
\* n/d in lowest terms with a positive denominator (d # 0).
Rat(n, d) ==
  LET g == GCD(n, d)
  IN  IF d < 0 THEN [n |-> (-n) \div g, d |-> (-d) \div g]
      ELSE [n |-> n \div g, d |-> d \div g]

FromInt(k) == [n |-> k, d |-> 1]

RatAdd(a, b) == Rat(a.n * b.d + b.n * a.d, a.d * b.d)

RatSub(a, b) == Rat(a.n * b.d - b.n * a.d, a.d * b.d)

\* The product, cancelling across the factors before multiplying.
RatMul(a, b) ==
  LET g1 == GCD(a.n, b.d)
      g2 == GCD(b.n, a.d)
  IN  Rat((a.n \div g1) * (b.n \div g2), (a.d \div g2) * (b.d \div g1))

\* a / b for b # 0.
RatDiv(a, b) ==
  IF b.n < 0 THEN RatMul(a, [n |-> -b.d, d |-> -b.n])
  ELSE RatMul(a, [n |-> b.d, d |-> b.n])

RatLE(a, b) == a.n * b.d <= b.n * a.d

RatLT(a, b) == a.n * b.d < b.n * a.d

\* floor(v * 10^k) and the remainder over d, one decimal digit at a time.
RECURSIVE LongDivision(_, _, _, _)
LongDivision(q, r, d, k) ==
  IF k = 0 THEN [q |-> q, r |-> r]
  ELSE LongDivision(10 * q + (10 * r) \div d, (10 * r) % d, d, k - 1)

\* round(v, k) as an integer number of 10^-k.
RoundRat(v, k) ==
  LET l == LongDivision(v.n \div v.d, v.n % v.d, v.d, k)
  IN  IF 2 * l.r < v.d THEN l.q
      ELSE IF 2 * l.r > v.d THEN l.q + 1
      ELSE IF l.q % 2 = 0 THEN l.q ELSE l.q + 1

PotentialRetention_inches(curve_number) ==
  RatSub(Rat(1000, curve_number), FromInt(10))

\* S = (25400 / curve_number) - 254, for curve_number # 0.
PotentialRetention(curve_number) ==
  RatSub(Rat(25400, curve_number), FromInt(254))

\* Ia = 0.2 * S
InitialAbstraction(S) == RatMul(Rat(1, 5), S)

\* The denominator rainfall - Ia + S of the runoff depth.
RunoffDenominator(rainfall, Ia, S) == RatAdd(RatSub(rainfall, Ia), S)

Runoff_deficit(rainfall, Ia, S) ==
  IF RatLE(rainfall, Ia) THEN RatSub(Ia, rainfall)
  ELSE RatDiv(RatMul(RatSub(rainfall, Ia), RatSub(rainfall, Ia)),
              RunoffDenominator(rainfall, Ia, S))

\* runoff = 0 if rainfall <= Ia else (rainfall - Ia)^2 / (rainfall - Ia + S)
Runoff(rainfall, Ia, S) ==
  IF RatLE(rainfall, Ia) THEN FromInt(0)
  ELSE RatDiv(RatMul(RatSub(rainfall, Ia), RatSub(rainfall, Ia)),
              RunoffDenominator(rainfall, Ia, S))

RunoffCoefficient_percent(runoff, rainfall) ==
  IF rainfall.n > 0 THEN RatMul(FromInt(100), RatDiv(runoff, rainfall))
  ELSE FromInt(0)

\* runoff / rainfall if rainfall > 0 else 0
RunoffCoefficient(runoff, rainfall) ==
  IF rainfall.n > 0 THEN RatDiv(runoff, rainfall) ELSE FromInt(0)

\* The float divisions of lines 219/226 and 731/738 raise ZeroDivisionError
\* on a zero divisor.
DividesByZero(rainfall, curve_number) ==
  \/ curve_number = 0
  \/ LET S == PotentialRetention(curve_number)
         Ia == InitialAbstraction(S)
     IN  /\ RatLT(Ia, rainfall)
         /\ RunoffDenominator(rainfall, Ia, S).n = 0

\* estimate_discharge_from_rainfall: peak_discharge, runoff,
\* potential_retention_s and initial_abstraction_ia are round(v, 2) in
\* hundredths, runoff_coefficient is round(v, 3) in thousandths; locals
\* keeps the unrounded variables.
estimate_discharge_from_rainfall(basin_rainfall, basin_area, curve_number, time_concentration) ==
  IF DividesByZero(basin_rainfall, curve_number)
  THEN Raise("ZeroDivisionError", "float division by zero")
  ELSE
    LET S == PotentialRetention(curve_number)
        Ia == InitialAbstraction(S)
        runoff == Runoff(basin_rainfall, Ia, S)
        runoff_coeff == RunoffCoefficient(runoff, basin_rainfall)
        intensity == RatDiv(runoff, FromInt(time_concentration))
        peak_discharge ==
          IF time_concentration > 0 /\ runoff.n > 0
          THEN RatDiv(RatMul(RatMul(runoff_coeff, intensity),
                             FromInt(basin_area)), Rat(36, 10))
          ELSE FromInt(0)
    IN  [kind |-> "return",
         value |-> [peak_discharge |-> RoundRat(peak_discharge, 2),
                    runoff |-> RoundRat(runoff, 2),
                    runoff_coefficient |-> RoundRat(runoff_coeff, 3),
                    potential_retention_s |-> RoundRat(S, 2),
                    initial_abstraction_ia |-> RoundRat(Ia, 2),
                    method |-> "SCS-CN",
                    curve_number |-> curve_number],
         locals |-> [S |-> S, Ia |-> Ia, runoff |-> runoff,
                     runoff_coeff |-> runoff_coeff,
                     peak_discharge |-> peak_discharge]]

\* estimate_discharge_scs with the peak not divided by Tc.
estimate_discharge_scs_without_tc(rainfall, area_km2, curve_number, time_of_concentration) ==
  IF DividesByZero(rainfall, curve_number)
  THEN Raise("ZeroDivisionError", "float division by zero")
  ELSE
    LET S == PotentialRetention(curve_number)
        Ia == InitialAbstraction(S)
        runoff == Runoff(rainfall, Ia, S)
        runoff_coef == RunoffCoefficient(runoff, rainfall)
        C == runoff_coef
        peak_discharge ==
          IF time_of_concentration > 0
          THEN RatDiv(RatMul(RatMul(C, FromInt(area_km2)), runoff),
                      Rat(36, 10))
          ELSE FromInt(0)
    IN  [kind |-> "return",
         value |-> [peak_discharge |-> peak_discharge,
                    runoff |-> runoff,
                    runoff_coefficient |-> runoff_coef,
                    potential_retention_s |-> S,
                    initial_abstraction_ia |-> Ia,
                    method |-> "SCS-CN",
                    curve_number |-> curve_number],
         locals |-> [S |-> S, Ia |-> Ia, runoff |-> runoff,
                     runoff_coeff |-> runoff_coef,
                     peak_discharge |-> peak_discharge]]

\* estimate_discharge_scs: the same quantities, returned unrounded.
estimate_discharge_scs(rainfall, area_km2, curve_number, time_of_concentration) ==
  IF DividesByZero(rainfall, curve_number)
  THEN Raise("ZeroDivisionError", "float division by zero")
  ELSE
    LET S == PotentialRetention(curve_number)
        Ia == InitialAbstraction(S)
        runoff == Runoff(rainfall, Ia, S)
        runoff_coef == RunoffCoefficient(runoff, rainfall)
        C == runoff_coef
        peak_discharge ==
          IF time_of_concentration > 0
          THEN RatDiv(RatMul(RatMul(C, FromInt(area_km2)), runoff),
                      RatMul(Rat(36, 10), FromInt(time_of_concentration)))
          ELSE FromInt(0)
    IN  [kind |-> "return",
         value |-> [peak_discharge |-> peak_discharge,
                    runoff |-> runoff,
                    runoff_coefficient |-> runoff_coef,
                    potential_retention_s |-> S,
                    initial_abstraction_ia |-> Ia,
                    method |-> "SCS-CN",
                    curve_number |-> curve_number],
         locals |-> [S |-> S, Ia |-> Ia, runoff |-> runoff,
                     runoff_coeff |-> runoff_coef,
                     peak_discharge |-> peak_discharge]]

\* Inputs of the estimators: rainfall on a grid of 12.7 mm from -12.7 mm,
\* curve numbers inside and outside [30, 100], times of concentration
\* (hours) around 0.
RainfallDepths == {Rat(127 * k, 10) : k \in -1..MaxDepth}

CurveNumbers == {0, 25, 30, 50, 70, 80, 100, 125}

TimesOfConcentration == {-1, 0, 1, 2}

ScsArgs ==
  [rainfall : RainfallDepths, area : 0..MaxArea,
   curve_number : CurveNumbers, time_concentration : TimesOfConcentration]

EstimateDischargeFromRainfall ==
  /\ pc = "estimate_discharge_from_rainfall"
  /\ result = Pending
  /\ result' = estimate_discharge_from_rainfall(args.rainfall, args.area,
                 args.curve_number, args.time_concentration)
  /\ UNCHANGED <<pc, args, storage>>

EstimateDischargeScs ==
  /\ pc = "estimate_discharge_scs"
  /\ result = Pending
  /\ result' = estimate_discharge_scs(args.rainfall, args.area,
                 args.curve_number, args.time_concentration)
  /\ UNCHANGED <<pc, args, storage>>

InitScs ==
  /\ pc \in {"estimate_discharge_from_rainfall", "estimate_discharge_scs"}
  /\ args \in ScsArgs
  /\ result = Pending
  /\ storage = 0

NextScs == EstimateDischargeFromRainfall \/ EstimateDischargeScs

SpecScs == InitScs /\ [][NextScs]_vars

(***************************************************************************)
(* Flood travel time (Manning).                                            *)
(*                                                                         *)
(* distance (km), slope (m/m), manning_n and hydraulic_radius (m) are      *)
(* exact rationals.  The slopes of the model are squares and the radii     *)
(* cubes of rationals, so that slope ** 0.5 and hydraulic_radius ** (2/3)  *)
(* are rationals too.                                                      *)
(***************************************************************************)
\* v ** 0.5 for the square v of a rational.
SquareRoot(v) ==
  Rat(CHOOSE x \in 0..1000 : x * x = v.n, CHOOSE y \in 1..1000 : y * y = v.d)

\* v ** (2/3) for the cube v of a rational.
PowerTwoThirds(v) ==
  LET r == Rat(CHOOSE x \in 0..10 : x * x * x = v.n,
               CHOOSE y \in 1..10 : y * y * y = v.d)
  IN  RatMul(r, r)

\* Lines 595-599: the checks that raise ValueError.
TravelValidation(distance, slope, manning_n, hydraulic_radius) ==
  IF distance.n <= 0 \/ slope.n <= 0 \/ manning_n.n <= 0
       \/ hydraulic_radius.n <= 0
  THEN "not_positive"
  ELSE IF ~(RatLE(Rat(1, 100), manning_n) /\ RatLE(manning_n, Rat(20, 100)))
  THEN "manning_n_out_of_range"
  ELSE "ok"

\* V = (1 / n) * R^(2/3) * S^(1/2)
ManningVelocity(slope, manning_n, hydraulic_radius) ==
  RatMul(RatMul(RatDiv(FromInt(1), manning_n),
                PowerTwoThirds(hydraulic_radius)),
         SquareRoot(slope))

VelocityClass(velocity) ==
  IF RatLT(velocity, Rat(3, 10)) THEN "very_slow"
  ELSE IF RatLT(velocity, Rat(6, 10)) THEN "slow"
  ELSE IF RatLT(velocity, FromInt(1)) THEN "moderate"
  ELSE IF RatLT(velocity, FromInt(2)) THEN "fast"
  ELSE "very_fast"

\* calculate_travel_time.  The returned numbers are round(v, k) in units of
\* 10^-k; locals keeps the unrounded variables.
calculate_travel_time(distance, slope, manning_n, hydraulic_radius) ==
  LET valid == TravelValidation(distance, slope, manning_n, hydraulic_radius)
  IN  IF valid = "not_positive"
      THEN Raise("ValueError", "all parameters must be positive")
      ELSE IF valid = "manning_n_out_of_range"
      THEN Raise("ValueError", "Manning's n must be within [0.01, 0.20]")
      ELSE
        LET velocity == ManningVelocity(slope, manning_n, hydraulic_radius)
            distance_m == RatMul(distance, FromInt(1000))
            travel_time_seconds == RatDiv(distance_m, velocity)
            travel_time_hours == RatDiv(travel_time_seconds, FromInt(3600))
        IN  [kind |-> "return",
             value |->
               [distance_km |-> RoundRat(distance, 2),
                velocity_m_s |-> RoundRat(velocity, 3),
                velocity_km_h |-> RoundRat(RatMul(velocity, Rat(36, 10)), 2),
                travel_time_hours |-> RoundRat(travel_time_hours, 2),
                travel_time_minutes |->
                  RoundRat(RatMul(travel_time_hours, FromInt(60)), 1),
                travel_time_days |->
                  RoundRat(RatDiv(travel_time_hours, FromInt(24)), 2),
                velocity_class |-> VelocityClass(velocity),
                parameters |->
                  [slope |-> slope, manning_n |-> manning_n,
                   hydraulic_radius |-> RoundRat(hydraulic_radius, 2)],
                formula |-> "Manning: V = (1/n) * R^(2/3) * S^(1/2)"],
             locals |-> [velocity |-> velocity,
                         travel_time_seconds |-> travel_time_seconds,
                         travel_time_hours |-> travel_time_hours]]

\* Inputs: distances of -1, 0, 0.001 and 1..MaxDistance km; slopes of
\* -0.01, 0, 1e-6, 1e-4 and 0.01; Manning's n of -0.01, 0, 0.005, 0.01,
\* 0.03, 0.2 and 0.21; radii of -1, 0, 0.001, 1 and 8 m.
Distances ==
  {FromInt(-1), FromInt(0), Rat(1, 1000)}
    \cup {FromInt(k) : k \in 1..MaxDistance}

Slopes ==
  {Rat(-1, 100), FromInt(0), Rat(1, 1000000), Rat(1, 10000), Rat(1, 100)}

ManningNs ==
  {Rat(-1, 100), FromInt(0), Rat(5, 1000), Rat(1, 100), Rat(3, 100),
   Rat(20, 100), Rat(21, 100)}

HydraulicRadii ==
  {FromInt(-1), FromInt(0), Rat(1, 1000), FromInt(1), FromInt(8)}

TravelArgs ==
  [distance : Distances, slope : Slopes, manning_n : ManningNs,
   hydraulic_radius : HydraulicRadii]

CalculateTravelTime ==
  /\ pc = "calculate_travel_time"
  /\ result = Pending
  /\ result' = calculate_travel_time(args.distance, args.slope,
                 args.manning_n, args.hydraulic_radius)
  /\ UNCHANGED <<pc, args, storage>>

InitTravel ==
  /\ pc = "calculate_travel_time"
  /\ args \in TravelArgs
  /\ result = Pending
  /\ storage = 0

NextTravel == CalculateTravelTime

SpecTravel == InitTravel /\ [][NextTravel]_vars

(***************************************************************************)
(* Return period (Gumbel).                                                 *)
(*                                                                         *)
(* Peaks and the discharge are integers in hundredths of m3/s.  The        *)
(* historical series is a record: [none |-> TRUE] for a missing series     *)
(* (None), [none |-> FALSE, list |-> peaks] otherwise.  np.std is the      *)
(* population standard deviation; the model carries its square, the        *)
(* variance, as an exact rational, which decides std < 0.01.  The CDF      *)
(* value F = exp(-exp(z)) is not a rational: the F of a call is drawn from *)
(* CdfValues, in units of 10^-5.  return_period and probability are in     *)
(* hundredths.                                                             *)
(***************************************************************************)
\* round(float('inf'), 2) as a returned period: a value outside the range
\* of periods.
Infinity == -2

NoSeries == [none |-> TRUE]

Series(list) == [none |-> FALSE, list |-> list]

\* not historical_data or len(historical_data) < 3
TooFewPeaks(historical_data) ==
  \/ historical_data.none
  \/ Len(historical_data.list) = 0
  \/ Len(historical_data.list) < 3

\* np.mean(historical_data), in m3/s.
Mean(list) == Rat(SliceSum(list, 0, Len(list)), 100 * Len(list))

\* np.std(historical_data) ** 2, in (m3/s)^2.
Variance(list) ==
  LET N == Len(list)
      total == SliceSum(list, 0, N)
      squares == SliceSum([j \in 1..N |-> list[j] * list[j]], 0, N)
  IN  Rat(N * squares - total * total, 10000 * N * N)

DegenerateStd_zero_only(variance) == variance.n = 0

\* std == 0 or std < 0.01
DegenerateStd(variance) ==
  \/ variance.n = 0
  \/ RatLT(RatMul(FromInt(10000), variance), FromInt(1))

\* Lines 141-146: F >= 0.9999 gives an infinite return period and
\* probability 0; otherwise return_period = 1 / (1 - F) and probability
\* = 1 / return_period.
InfinitePeriod(F5) == F5 >= 99990

ReturnPeriod(F5) == Rat(100000, 100000 - F5)

Probability(F5) ==
  IF InfinitePeriod(F5) THEN FromInt(0)
  ELSE RatDiv(FromInt(1), ReturnPeriod(F5))

\* Lines 149-158; an infinite period is below no bound.
ReturnPeriodCategory(F5) ==
  IF InfinitePeriod(F5) THEN "extreme"
  ELSE IF RatLT(ReturnPeriod(F5), FromInt(2)) THEN "common"
  ELSE IF RatLT(ReturnPeriod(F5), FromInt(10)) THEN "moderate"
  ELSE IF RatLT(ReturnPeriod(F5), FromInt(50)) THEN "rare"
  ELSE IF RatLT(ReturnPeriod(F5), FromInt(100)) THEN "very_rare"
  ELSE "extreme"

calculate_return_period_gumbel(discharge, historical_data, F5) ==
  IF TooFewPeaks(historical_data)
  THEN Return([return_period |-> None,
               probability |-> None,
               category |-> "insufficient_data",
               error |-> "at least 3 years of historical data are needed"])
  ELSE
    LET mean == Mean(historical_data.list)
        variance == Variance(historical_data.list)
    IN  IF DegenerateStd(variance)
        THEN Return([return_period |-> 100,
                     probability |-> 10000,
                     category |-> "common",
                     interpretation |-> "the data does not vary",
                     gumbel_params |-> [mu |-> mean, beta |-> 0,
                                        mean |-> mean,
                                        variance |-> variance]])
        ELSE Return([return_period |->
                       IF InfinitePeriod(F5) THEN Infinity
                       ELSE RoundRat(ReturnPeriod(F5), 2),
                     probability |->
                       RoundRat(RatMul(Probability(F5), FromInt(100)), 2),
                     category |-> ReturnPeriodCategory(F5),
                     gumbel_params |-> [mean |-> RoundRat(mean, 2),
                                        variance |-> variance],
                     cdf |-> RoundDiv(F5, 10)])

\* Inputs: a missing series and every series of at most MaxPeaks peaks of
\* 0, 0.01, 0.03 or 1 m3/s; discharges of -0.01 m3/s and 0..MaxQ m3/s.
Peaks == {0, 1, 3, 100}

HistoricalData ==
  {NoSeries} \cup {Series(l) : l \in UNION {[1..n -> Peaks] : n \in 0..MaxPeaks}}

CdfValues ==
  {0, 40000, 49900, 50000, 90000, 98000, 99000, 99989, 99990, 100000}

GumbelArgs ==
  [discharge : {-1} \cup {100 * q : q \in 0..MaxQ},
   historical_data : HistoricalData, F : CdfValues]

CalculateReturnPeriodGumbel ==
  /\ pc = "calculate_return_period_gumbel"
  /\ result = Pending
  /\ result' = calculate_return_period_gumbel(args.discharge,
                 args.historical_data, args.F)
  /\ UNCHANGED <<pc, args, storage>>

InitGumbel ==
  /\ pc = "calculate_return_period_gumbel"
  /\ args \in GumbelArgs
  /\ result = Pending
  /\ storage = 0

NextGumbel == CalculateReturnPeriodGumbel

SpecGumbel == InitGumbel /\ [][NextGumbel]_vars

(***************************************************************************)
(* Flood wave celerity.                                                    *)
(*                                                                         *)
(* discharge (m3/s), width and depth (m) are integers; the returned        *)
(* numbers are round(v, k) in units of 10^-k.                              *)
(***************************************************************************)
\* velocity = discharge / area if area > 0 else 0
MeanVelocity(discharge, area) ==
  IF area > 0 THEN Rat(discharge, area) ELSE FromInt(0)

calculate_flood_wave_celerity(discharge, width, depth) ==
  LET area == width * depth
      velocity == MeanVelocity(discharge, area)
      wave_celerity == RatMul(Rat(5, 3), velocity)
  IN  [kind |-> "return",
       value |-> [discharge |-> 100 * discharge,
                  cross_section_area |-> 100 * area,
                  mean_velocity |-> RoundRat(velocity, 3),
                  wave_celerity |-> RoundRat(wave_celerity, 3),
                  ratio_c_to_v |->
                    IF velocity.n > 0
                    THEN RoundRat(RatDiv(wave_celerity, velocity), 2)
                    ELSE 0,
                  interpretation |-> "the wave travels about 1.67 times faster"],
       locals |-> [area |-> area, velocity |-> velocity,
                   wave_celerity |-> wave_celerity]]

CelerityArgs ==
  [discharge : -1..MaxQ, width : -1..MaxChannel, depth : -1..MaxChannel]

CalculateFloodWaveCelerity ==
  /\ pc = "calculate_flood_wave_celerity"
  /\ result = Pending
  /\ result' = calculate_flood_wave_celerity(args.discharge, args.width,
                                             args.depth)
  /\ UNCHANGED <<pc, args, storage>>

InitCelerity ==
  /\ pc = "calculate_flood_wave_celerity"
  /\ args \in CelerityArgs
  /\ result = Pending
  /\ storage = 0

NextCelerity == CalculateFloodWaveCelerity

SpecCelerity == InitCelerity /\ [][NextCelerity]_vars

(***************************************************************************)
(* The forecast pipeline of p.py for a basin with one station.             *)
(*                                                                         *)
(* Depths are whole millimetres; dates are numbered 1, 2, ... and 0 stands *)
(* for the empty date string.  daily_rain and accumulated_3d of a day are  *)
(* round(v, 2) in hundredths.                                              *)
(***************************************************************************)
Min2(a, b) == IF a < b THEN a ELSE b

\* p.py:398-405: the basin's depth of each day from the station's series.
BasinSeries(precipitation, weight) ==
  [i \in 1..Len(precipitation) |->
     LET avg == calculate_basin_rainfall([s \in {"s1"} |-> precipitation[i]],
                                         [s \in {"s1"} |-> weight]).value
     IN  avg.n \div avg.d]

\* p.py:294-308: the day_info of the day with 0-based index idx.
DayInfo(basin_rainfall, dates, thresholds, idx) ==
  LET rain == basin_rainfall[idx + 1]
      accumulated_3d == SliceSum(basin_rainfall, Max0(idx - 2), idx + 1)
  IN  [date |-> dates[idx + 1],
       daily_rain |-> 100 * rain,
       accumulated_3d |-> 100 * accumulated_3d,
       risk_level |->
         assess_flood_risk(rain, accumulated_3d, thresholds).risk_level]

\* p.py:310-313: the greatest depth so far and its date after the first k
\* days; a later day replaces it only with a strictly greater depth.
RECURSIVE MaxDaily(_, _, _)
MaxDaily(basin_rainfall, dates, k) ==
  IF k = 0 THEN [rain |-> 0, date |-> 0]
  ELSE LET before == MaxDaily(basin_rainfall, dates, k - 1)
       IN  IF basin_rainfall[k] > before.rain
           THEN [rain |-> basin_rainfall[k], date |-> dates[k]]
           ELSE before

\* p.py:316-317 with only the highest tier collected.
IsWarning_danger_only(day_info) == day_info.risk_level = "NGUY HIEM"

\* p.py:316-317: the days that enter the warnings list.
IsWarning(day_info) == day_info.risk_level \in {"CANH BAO", "NGUY HIEM"}

\* analyze_basin_forecast: zip stops at the shorter of dates and series.
analyze_basin_forecast(basin_rainfall, dates, thresholds) ==
  LET days == Min2(Len(dates), Len(basin_rainfall))
      forecast_days ==
        [j \in 1..days |-> DayInfo(basin_rainfall, dates, thresholds, j - 1)]
      greatest == MaxDaily(basin_rainfall, dates, days)
  IN  [forecast_days |-> forecast_days,
       max_daily_rain |-> greatest.rain,
       max_daily_date |-> greatest.date,
       warnings |-> SelectSeq(forecast_days, IsWarning)]

\* Inputs: every series of at most MaxLen depths in 0..MaxRain against every
\* ordered small threshold set, and a five-day storm against the basins'
\* thresholds; the dates list is as long as the series or one shorter.
OrderedThresholds ==
  {t \in SmallThresholds :
     /\ t.watch.daily <= t.warning.daily
     /\ t.warning.daily <= t.danger.daily
     /\ t.watch.accumulated_3d <= t.warning.accumulated_3d
     /\ t.warning.accumulated_3d <= t.danger.accumulated_3d}

StormSeries == <<10, 20, 150, 30, 10>>

ForecastInputs ==
  ((UNION {[1..n -> 0..MaxRain] : n \in 0..MaxLen}) \X OrderedThresholds)
    \cup ({StormSeries} \X BasinThresholds)

AnalyzeBasinForecast ==
  /\ pc = "analyze_basin_forecast"
  /\ result = Pending
  /\ LET basin_rainfall == BasinSeries(args.precipitation, args.weight)
     IN  result' = [kind |-> "return",
                    value |-> analyze_basin_forecast(basin_rainfall,
                                args.dates, args.thresholds),
                    locals |-> [basin_rainfall |-> basin_rainfall]]
  /\ UNCHANGED <<pc, args, storage>>

InitForecast ==
  /\ pc = "analyze_basin_forecast"
  /\ \E c \in ForecastInputs, w \in {1, MaxWeight} :
       \E n \in {Len(c[1]), Max0(Len(c[1]) - 1)} :
         args = [precipitation |-> c[1], weight |-> w,
                 dates |-> [j \in 1..n |-> j], thresholds |-> c[2]]
  /\ result = Pending
  /\ storage = 0

NextForecast == AnalyzeBasinForecast

SpecForecast == InitForecast /\ [][NextForecast]_vars

(***************************************************************************)
(* The core as a whole: a call of any of its functions.                    *)
(***************************************************************************)
InitCore ==
  \/ InitSeverity
  \/ InitRouting
  \/ InitReservoir
  \/ InitThiessen
  \/ InitAccumulation
  \/ InitScs
  \/ InitTravel
  \/ InitGumbel
  \/ InitCelerity
  \/ InitForecast

NextCore ==
  \/ NextSeverity
  \/ NextRouting
  \/ NextReservoir
  \/ NextThiessen
  \/ NextAccumulation
  \/ NextScs
  \/ NextTravel
  \/ NextGumbel
  \/ NextCelerity
  \/ NextForecast

SpecCore == InitCore /\ [][NextCore]_vars

(***************************************************************************)
(* Calls of the core from several threads.                                 *)
(*                                                                         *)
(* pc, args and result are per thread; storage is what the threads share:  *)
(* the module-level dicts and the list object every call is handed.  A     *)
(* thread executes one statement of its function per step (one iteration   *)
(* of a loop), so the statements of the calls interleave in every order.   *)
(***************************************************************************)
Threads == {"t1", "t2"}

CN_VALUES ==
  [urban_high_density |-> 85, urban_medium_density |-> 75,
   agricultural |-> 70, forest_good |-> 55, forest_poor |-> 70,
   grassland |-> 65, water |-> 100]

BASIN_AREAS ==
  [HONG |-> 169000, MEKONG |-> 795000, DONGNAI |-> 44000, CENTRAL |-> 50000]

\* The locals of a call that is under way: its loop index and its own list.
Running(j, list) == [kind |-> "pending", j |-> j, list |-> list]

\* Line 73 writing the sum into the list it was handed.
HeapAfterAccumulation_in_place(heap, i, acc_rain) ==
  [heap EXCEPT !.series[i + 1] = acc_rain]

\* Line 73: accumulated.append(acc_rain) grows the list created at line 68;
\* the shared objects stay as they are.
HeapAfterAccumulation(heap, i, acc_rain) == heap

\* Line 521: outflow.append(O_new) grows the list created at line 517.
HeapAfterRoutingStep(heap, j, O_new) == heap

\* Lines 489-514 of muskingum_cunge_routing: validation and stability.
RoutingEnter(t) ==
  /\ pc[t] = "muskingum_cunge_routing"
  /\ LET valid == RoutingValidation(args[t].K, args[t].X10, args[t].dt)
         c == Coefficients(args[t].K, args[t].X10, args[t].dt)
     IN  IF valid = "X_out_of_range"
         THEN /\ result' = [result EXCEPT ![t] =
                   Raise("ValueError", "X must be within [0, 0.5]")]
              /\ pc' = [pc EXCEPT ![t] = "done"]
         ELSE IF valid = "K_dt_not_positive"
         THEN /\ result' = [result EXCEPT ![t] =
                   Raise("ValueError", "K and dt must be positive")]
              /\ pc' = [pc EXCEPT ![t] = "done"]
         ELSE IF ~IsStable(c)
         THEN /\ result' = [result EXCEPT ![t] = UnstableResult(c)]
              /\ pc' = [pc EXCEPT ![t] = "done"]
         ELSE /\ pc' = [pc EXCEPT ![t] = "routing_init"]
              /\ UNCHANGED result
  /\ UNCHANGED <<args, storage>>

\* Line 517: outflow = [inflow[0]].
RoutingInit(t) ==
  /\ pc[t] = "routing_init"
  /\ IF Len(storage.series) = 0
     THEN /\ result' = [result EXCEPT ![t] =
               Raise("IndexError", "list index out of range")]
          /\ pc' = [pc EXCEPT ![t] = "done"]
     ELSE /\ result' = [result EXCEPT ![t] =
               Running(1, <<[n |-> storage.series[1], d |-> 1]>>)]
          /\ pc' = [pc EXCEPT ![t] = "routing_loop"]
  /\ UNCHANGED <<args, storage>>

\* Lines 519-521: one iteration of the routing loop.
RoutingLoop(t) ==
  /\ pc[t] = "routing_loop"
  /\ result[t].j <= Len(storage.series) - 1
  /\ LET j == result[t].j
         c == Coefficients(args[t].K, args[t].X10, args[t].dt)
         O_new == RoutingStep(c, storage.series[j + 1], storage.series[j],
                              result[t].list[j])
     IN  /\ result' = [result EXCEPT ![t] =
               Running(j + 1, Append(result[t].list, O_new))]
         /\ storage' = HeapAfterRoutingStep(storage, j, O_new)
  /\ UNCHANGED <<pc, args>>

\* Lines 523-556: the analysis and the returned dict.
RoutingAnalyse(t) ==
  /\ pc[t] = "routing_loop"
  /\ result[t].j > Len(storage.series) - 1
  /\ result' = [result EXCEPT ![t] =
       RoutingResult(storage.series, args[t].K, args[t].X10, args[t].dt,
                     Coefficients(args[t].K, args[t].X10, args[t].dt),
                     result[t].list)]
  /\ pc' = [pc EXCEPT ![t] = "done"]
  /\ UNCHANGED <<args, storage>>

\* Lines 70-73: one iteration of the accumulation loop (i = j).
AccumulateLoop(t) ==
  /\ pc[t] = "calculate_accumulated_rainfall"
  /\ result[t].j < Len(storage.series)
  /\ LET i == result[t].j
         start_idx == Max0(i - args[t].days + 1)
         acc_rain == SliceSum(storage.series, start_idx, i + 1)
     IN  /\ result' = [result EXCEPT ![t] =
               Running(i + 1, Append(result[t].list, acc_rain))]
         /\ storage' = HeapAfterAccumulation(storage, i, acc_rain)
  /\ UNCHANGED <<pc, args>>

\* Line 75: return accumulated.
AccumulateReturn(t) ==
  /\ pc[t] = "calculate_accumulated_rainfall"
  /\ result[t].j >= Len(storage.series)
  /\ result' = [result EXCEPT ![t] = Return(result[t].list)]
  /\ pc' = [pc EXCEPT ![t] = "done"]
  /\ UNCHANGED <<args, storage>>

\* main_with_db.py:1045-1052: the curve number is read from CN_VALUES and
\* handed to estimate_discharge_from_rainfall.
EstimateWithCurveNumber(t) ==
  /\ pc[t] = "estimate_discharge_from_rainfall"
  /\ result' = [result EXCEPT ![t] =
       estimate_discharge_from_rainfall(args[t].rainfall, args[t].area,
         storage.CN_VALUES.agricultural, args[t].time_concentration)]
  /\ pc' = [pc EXCEPT ![t] = "done"]
  /\ UNCHANGED <<args, storage>>

\* Inputs: the shared list holds at most MaxLen values of 0, 1 and MaxQ; a
\* thread routes it (a stable reach with K = 1 h, one with K = 0.5 h and
\* X = 0, an unstable one, an invalid one), accumulates it over 1 or MaxDays
\* days, or estimates a discharge.
SharedSeries == UNION {[1..n -> {0, 1, MaxQ}] : n \in 0..MaxLen}

ThreadCall(fn, K, X10, dt, days, rainfall) ==
  [fn |-> fn, K |-> K, X10 |-> X10, dt |-> dt, days |-> days,
   rainfall |-> rainfall, area |-> MaxArea, time_concentration |-> 1]

ThreadCalls ==
  {ThreadCall("muskingum_cunge_routing", p[1], p[2], p[3], 0, FromInt(0)) :
     p \in {<<3600, 2, 3600>>, <<1800, 0, 3600>>, <<100, 2, 3600>>,
            <<0, 2, 3600>>}}
    \cup {ThreadCall("calculate_accumulated_rainfall", 0, 0, 0, d, FromInt(0)) :
            d \in {1, MaxDays}}
    \cup {ThreadCall("estimate_discharge_from_rainfall", 0, 0, 0, 0, r) :
            r \in {FromInt(0), Rat(127 * MaxDepth, 10)}}

InitThreads ==
  /\ storage \in [CN_VALUES : {CN_VALUES}, BASIN_AREAS : {BASIN_AREAS},
                  series : SharedSeries]
  /\ args \in [Threads -> ThreadCalls]
  /\ pc = [t \in Threads |-> args[t].fn]
  /\ result = [t \in Threads |-> Running(0, <<>>)]

NextThreads ==
  \E t \in Threads :
    \/ RoutingEnter(t)
    \/ RoutingInit(t)
    \/ RoutingLoop(t)
    \/ RoutingAnalyse(t)
    \/ AccumulateLoop(t)
    \/ AccumulateReturn(t)
    \/ EstimateWithCurveNumber(t)

SpecThreads == InitThreads /\ [][NextThreads]_vars

(***************************************************************************)
(* Background jobs and the global semaphore of services/request_manager.   *)
(*                                                                         *)
(* pc, args and result are per job: args[j] is the kind of job j (an       *)
(* alerts job or an AI-analysis job) and result[j] its locals.  storage    *)
(* holds _global_semaphore's counter and _current_task (0 for None).  A    *)
(* job takes one step per statement that touches them, so the jobs         *)
(* interleave in every order.                                              *)
(***************************************************************************)
Jobs == 1..MaxJobs

JobKinds == {"alerts", "ai"}

JobLocals(semaphore_acquired, status, releases) ==
  [semaphore_acquired |-> semaphore_acquired, status |-> status,
   releases |-> releases]

\* The finally clause releasing whether or not the semaphore was acquired.
ReleasesInFinally_always(semaphore_acquired) == TRUE

\* alert_service.py:486 and ai_analysis_service.py:334: if semaphore_acquired.
ReleasesInFinally(semaphore_acquired) == semaphore_acquired

\* alert_service.py:396-400: a job that is not registered returns at once;
\* ai_analysis_service.py:284: the status becomes processing (or the
\* repository raises).
JobStart(j) ==
  /\ pc[j] = "start"
  /\ \/ /\ pc' = [pc EXCEPT ![j] = "check_cache"]
        /\ result' = [result EXCEPT ![j].status = "processing"]
     \/ /\ args[j] = "alerts"
        /\ pc' = [pc EXCEPT ![j] = "finally"]
        /\ UNCHANGED result
     \/ /\ args[j] = "ai"
        /\ pc' = [pc EXCEPT ![j] = "except"]
        /\ UNCHANGED result
  /\ UNCHANGED <<args, storage>>

\* alert_service.py:403-410, ai_analysis_service.py:289-296: a cached result
\* ends the job before the semaphore is asked for.
CacheHit(j) ==
  /\ pc[j] = "check_cache"
  /\ pc' = [pc EXCEPT ![j] = "finally"]
  /\ result' = [result EXCEPT ![j].status = "completed"]
  /\ UNCHANGED <<args, storage>>

CacheMiss(j) ==
  /\ pc[j] = "check_cache"
  /\ pc' = [pc EXCEPT ![j] = "acquire"]
  /\ UNCHANGED <<args, result, storage>>

CacheError(j) ==
  /\ pc[j] = "check_cache"
  /\ pc' = [pc EXCEPT ![j] = "except"]
  /\ UNCHANGED <<args, result, storage>>

\* request_manager.py:37: _global_semaphore.acquire(timeout) succeeds.
SemaphoreAcquire(j) ==
  /\ pc[j] = "acquire"
  /\ storage.semaphore > 0
  /\ storage' = [storage EXCEPT !.semaphore = @ - 1]
  /\ pc' = [pc EXCEPT ![j] = "record_current_task"]
  /\ UNCHANGED <<args, result>>

\* request_manager.py:39-46 and the assignment of line 415 / 299.
RecordCurrentTask(j) ==
  /\ pc[j] = "record_current_task"
  /\ storage' = [storage EXCEPT !.current_task = j]
  /\ result' = [result EXCEPT ![j].semaphore_acquired = TRUE]
  /\ pc' = [pc EXCEPT ![j] = "heavy"]
  /\ UNCHANGED args

\* request_manager.py:37, 43-46: the wait times out while the semaphore is
\* taken.  The alerts job fails and returns (lines 416-421); the analysis
\* job goes on with its fallback analysis (lines 300-302).
SemaphoreTimeout(j) ==
  /\ pc[j] = "acquire"
  /\ storage.semaphore = 0
  /\ IF args[j] = "alerts"
     THEN /\ result' = [result EXCEPT ![j].status = "failed"]
          /\ pc' = [pc EXCEPT ![j] = "finally"]
     ELSE /\ pc' = [pc EXCEPT ![j] = "save"]
          /\ UNCHANGED result
  /\ UNCHANGED <<args, storage>>

\* alert_service.py:423-479: the fetches, the processing and the save
\* succeed; ai_analysis_service.py:304-317: the analysis is made (by the API
\* or, after an API error, by the fallback).
HeavySucceeds(j) ==
  /\ pc[j] = "heavy"
  /\ IF args[j] = "alerts"
     THEN /\ result' = [result EXCEPT ![j].status = "completed"]
          /\ pc' = [pc EXCEPT ![j] = "finally"]
     ELSE /\ pc' = [pc EXCEPT ![j] = "save"]
          /\ UNCHANGED result
  /\ UNCHANGED <<args, storage>>

\* A statement of the heavy section raises.
HeavyFails(j) ==
  /\ pc[j] = "heavy"
  /\ pc' = [pc EXCEPT ![j] = "except"]
  /\ UNCHANGED <<args, result, storage>>

\* ai_analysis_service.py:319-324: the analysis is saved and the job
\* completed.
SaveSucceeds(j) ==
  /\ pc[j] = "save"
  /\ result' = [result EXCEPT ![j].status = "completed"]
  /\ pc' = [pc EXCEPT ![j] = "finally"]
  /\ UNCHANGED <<args, storage>>

SaveFails(j) ==
  /\ pc[j] = "save"
  /\ pc' = [pc EXCEPT ![j] = "except"]
  /\ UNCHANGED <<args, result, storage>>

\* alert_service.py:479-483, ai_analysis_service.py:327-329: except Exception.
HandleException(j) ==
  /\ pc[j] = "except"
  /\ result' = [result EXCEPT ![j].status = "failed"]
  /\ pc' = [pc EXCEPT ![j] = "finally"]
  /\ UNCHANGED <<args, storage>>

\* alert_service.py:485-487, ai_analysis_service.py:331-335: finally.
Finally(j) ==
  /\ pc[j] = "finally"
  /\ pc' = [pc EXCEPT ![j] =
       IF ReleasesInFinally(result[j].semaphore_acquired)
       THEN "release_heavy_task" ELSE "done"]
  /\ UNCHANGED <<args, result, storage>>

\* request_manager.py:58-59: _current_task = None.
ClearCurrentTask(j) ==
  /\ pc[j] = "release_heavy_task"
  /\ storage' = [storage EXCEPT !.current_task = 0]
  /\ pc' = [pc EXCEPT ![j] = "semaphore_release"]
  /\ UNCHANGED <<args, result>>

\* request_manager.py:61: _global_semaphore.release().
SemaphoreRelease(j) ==
  /\ pc[j] = "semaphore_release"
  /\ storage' = [storage EXCEPT !.semaphore = @ + 1]
  /\ result' = [result EXCEPT ![j].releases = @ + 1]
  /\ pc' = [pc EXCEPT ![j] = "done"]
  /\ UNCHANGED args

InitJobs ==
  /\ storage = [semaphore |-> 1, current_task |-> 0]
  /\ args \in [Jobs -> JobKinds]
  /\ pc = [j \in Jobs |-> "start"]
  /\ result = [j \in Jobs |-> JobLocals(FALSE, "pending", 0)]

NextJobs ==
  \E j \in Jobs :
    \/ JobStart(j)
    \/ CacheHit(j)
    \/ CacheMiss(j)
    \/ CacheError(j)
    \/ SemaphoreAcquire(j)
    \/ RecordCurrentTask(j)
    \/ SemaphoreTimeout(j)
    \/ HeavySucceeds(j)
    \/ HeavyFails(j)
    \/ SaveSucceeds(j)
    \/ SaveFails(j)
    \/ HandleException(j)
    \/ Finally(j)
    \/ ClearCurrentTask(j)
    \/ SemaphoreRelease(j)

SpecJobs == InitJobs /\ [][NextJobs]_vars

(***************************************************************************)
(* Properties.                                                             *)
(***************************************************************************)
\* The severity of the strict ladder: the highest tier one of whose two
\* thresholds is reached.
StrictLadder(rainfall, accumulated_3d, t) ==
  IF rainfall >= t.danger.daily \/ accumulated_3d >= t.danger.accumulated_3d
  THEN "danger"
  ELSE IF rainfall >= t.warning.daily
            \/ accumulated_3d >= t.warning.accumulated_3d
  THEN "warning"
  ELSE IF rainfall >= t.watch.daily \/ accumulated_3d >= t.watch.accumulated_3d
  THEN "watch"
  ELSE "safe"

Classified == pc = "classify_flood_severity" /\ result.kind = "return"

\* C1: for every daily depth, accumulated depth and threshold set,
\* classify_flood_severity returns the severity of the strict ladder (danger
\* if either value reaches its danger threshold, else warning, else watch,
\* else safe).
C1_StrictOrLadder ==
  Classified =>
    result.value.severity
      = StrictLadder(args.rainfall, args.accumulated_3d, args.thresholds)

\* C2: with the thresholds 80/200, 120/350, 180/550 a daily depth of 190 is
\* classified danger whatever the accumulated depth is (0 included), and
\* daily 50 with accumulated 50 is classified safe.
C2_Daily190IsDanger ==
  (Classified /\ args.thresholds = FLOOD_THRESHOLDS.MEKONG) =>
    /\ args.rainfall = 190 => result.value.severity = "danger"
    /\ (args.rainfall = 50 /\ args.accumulated_3d = 50)
         => result.value.severity = "safe"

Routed == pc = "muskingum_cunge_routing" /\ result.kind # "pending"

ValidParameters == args.K > 0 /\ args.dt > 0 /\ 0 <= args.X10 /\ args.X10 <= 5

\* C1, C2, C3 >= 0 and their sum within 1e-3 of 1, for the arguments of the
\* call (tenths of X, every term times 10).
StableParameters ==
  LET denom == 2 * args.K * (10 - args.X10) + 10 * args.dt
      n1 == 10 * args.dt - 2 * args.K * args.X10
      n2 == 10 * args.dt + 2 * args.K * args.X10
      n3 == 2 * args.K * (10 - args.X10) - 10 * args.dt
  IN  /\ n1 >= 0
      /\ n2 >= 0
      /\ n3 >= 0
      /\ 1000 * Abs(n1 + n2 + n3 - denom) <= denom

RoutingSucceeded ==
  /\ Routed
  /\ result.kind = "return"
  /\ "outflow" \in DOMAIN result.value

\* C3: for K > 0, dt > 0 and X in [0, 0.5] the routing returns an outflow
\* series exactly when the coefficients are stable, and in every other case
\* fails with an UnstableRoutingParameters error (here for a non-empty inflow).
C3_UnstableRaises ==
  (Routed /\ ValidParameters /\ Len(args.inflow) > 0) =>
    IF StableParameters
    THEN RoutingSucceeded
    ELSE result.kind = "raise" /\ result.exc = "UnstableRoutingParameters"

\* round(v, 3) of the coefficient num/den, in thousandths.
Thousandths(num, den) == RoundDiv(1000 * num, den)

SpecReach(K) ==
  /\ Routed
  /\ args.K = K
  /\ args.X10 = 2
  /\ args.dt = 3600
  /\ Len(args.inflow) > 0

UnstableWithNegativeC3 ==
  /\ result.kind = "return"
  /\ "error" \in DOMAIN result.value
  /\ result.value.coefficients.C3 < 0

\* C4 as stated: K = 3600, X = 0.2, dt = 3600 give C1 = 0.111, C2 = 0.244,
\* C3 = 0.644 to three decimals and are stable; K = 100, X = 0.2, dt = 3600
\* give a negative C3 and are unstable.
C4_SpecCoefficients ==
  /\ SpecReach(3600) =>
       /\ RoutingSucceeded
       /\ result.value.is_stable
       /\ Thousandths(result.locals.C.C1, result.locals.C.den) = 111
       /\ Thousandths(result.locals.C.C2, result.locals.C.den) = 244
       /\ Thousandths(result.locals.C.C3, result.locals.C.den) = 644
  /\ SpecReach(100) => UnstableWithNegativeC3

\* C4 amended: K = 3600, X = 0.2, dt = 3600 give C1 = 0.231, C2 = 0.538,
\* C3 = 0.231 to three decimals (3/13, 7/13, 3/13) and are stable; K = 100,
\* X = 0.2, dt = 3600 give a negative C3 and are unstable.
C4_Coefficients ==
  /\ SpecReach(3600) =>
       /\ RoutingSucceeded
       /\ result.value.is_stable
       /\ Thousandths(result.locals.C.C1, result.locals.C.den) = 231
       /\ Thousandths(result.locals.C.C2, result.locals.C.den) = 538
       /\ Thousandths(result.locals.C.C3, result.locals.C.den) = 231
       /\ 13 * result.locals.C.C1 = 3 * result.locals.C.den
       /\ 13 * result.locals.C.C2 = 7 * result.locals.C.den
       /\ 13 * result.locals.C.C3 = 3 * result.locals.C.den
  /\ SpecReach(100) => UnstableWithNegativeC3

C4_Witness == SpecReach(3600) /\ RoutingSucceeded /\ Len(args.inflow) = MaxLen

\* C5: a call with X outside [0, 0.5], K <= 0 or dt <= 0 raises the
\* invalid-parameter error (ValueError) for every inflow series, the empty
\* one included; the result carries no coefficient, no outflow and no value.
C5_InvalidParameterRejected ==
  (Routed /\ ~ValidParameters) =>
    /\ result.kind = "raise"
    /\ result.exc = "ValueError"
    /\ DOMAIN result = {"kind", "exc", "msg"}

C5_Witness ==
  /\ Routed
  /\ args.inflow = <<>>
  /\ args.X10 = 6
  /\ args.K > 0
  /\ args.dt > 0
  /\ result.kind = "raise"

\* A rational in lowest terms.
Norm(v) ==
  LET g == GCD(v.n, v.d)
  IN  [n |-> v.n \div g, d |-> v.d \div g]

StableRouting ==
  Routed /\ ValidParameters /\ StableParameters /\ Len(args.inflow) > 0

\* C6 as stated, on the returned series (hundredths): same length as the
\* inflow, outflow[0] = inflow[0], and outflow[j+1] = C1*inflow[j+1]
\* + C2*inflow[j] + C3*outflow[j].
C6_ReturnedRecurrence ==
  StableRouting =>
    /\ RoutingSucceeded
    /\ LET I == args.inflow
           O == result.value.outflow
           c == result.locals.C
       IN  /\ Len(O) = Len(I)
           /\ O[1] = 100 * I[1]
           /\ \A j \in 1..(Len(I) - 1) :
                c.den * O[j + 1]
                  = c.C1 * 100 * I[j + 1] + c.C2 * 100 * I[j] + c.C3 * O[j]

\* C6 amended: for a non-empty inflow and stable parameters the returned
\* outflow has the length of the inflow; the unrounded series o the routing
\* computes has o[0] = inflow[0] and o[j+1] = C1*inflow[j+1] + C2*inflow[j]
\* + C3*o[j]; every returned outflow value is o[j] rounded to 2 decimals.
C6_RecurrenceRounded ==
  StableRouting =>
    /\ RoutingSucceeded
    /\ LET I == args.inflow
           O == result.value.outflow
           o == result.locals.outflow
           c == result.locals.C
       IN  /\ Len(O) = Len(I)
           /\ Len(o) = Len(I)
           /\ Norm(o[1]) = [n |-> I[1], d |-> 1]
           /\ O[1] = 100 * I[1]
           /\ \A j \in 1..(Len(I) - 1) :
                Norm(o[j + 1])
                  = Norm([n |-> (c.C1 * I[j + 1] + c.C2 * I[j]) * o[j].d
                                  + c.C3 * o[j].n,
                          d |-> c.den * o[j].d])
           /\ \A i \in 1..Len(I) : O[i] = Round2Rat(o[i])

C6_Witness ==
  /\ StableRouting
  /\ RoutingSucceeded
  /\ Len(args.inflow) = MaxLen
  /\ \E i \in 1..Len(args.inflow) :
       result.value.outflow[i] * result.locals.outflow[i].d
         # 100 * result.locals.outflow[i].n

\* idx (counted from 0) is the first place of the maximum of s.
IsFirstMax(s, idx) ==
  /\ idx + 1 \in 1..Len(s)
  /\ \A k \in 1..Len(s) : s[k] <= s[idx + 1]
  /\ \A k \in 1..idx : s[k] < s[idx + 1]

\* C7 as stated, on the returned numbers (hundredths): each peak is the
\* first maximum of its series, attenuation_percent is
\* (peak_in - peak_out)/peak_in*100 (0 when peak_in is 0) and lag_time_hours
\* is (index of outflow peak - index of inflow peak)*dt/3600.
C7_ExactAnalysis ==
  StableRouting =>
    /\ RoutingSucceeded
    /\ LET a == result.value.analysis
           I == args.inflow
           o == result.locals.outflow
           peak_in == I[a.peak_inflow_time + 1]
           peak_out == o[a.peak_outflow_time + 1]
       IN  /\ IsFirstMax(I, a.peak_inflow_time)
           /\ IsFirstMax(OnCommonDenominator(o), a.peak_outflow_time)
           /\ IF peak_in = 0
              THEN a.attenuation_percent = 0
              ELSE a.attenuation_percent * peak_in * peak_out.d
                     = 10000 * (peak_in * peak_out.d - peak_out.n)
           /\ 3600 * a.lag_time_hours
                = 100 * (a.peak_outflow_time - a.peak_inflow_time) * args.dt

\* C7 amended: the peak indices are the first maximum of the inflow and of
\* the unrounded outflow; peak_inflow and peak_outflow are those maxima
\* rounded to 2 decimals; attenuation_percent is
\* (peak_in - peak_out)/peak_in*100 rounded to 2 decimals when peak_in > 0
\* and 0 when peak_in is 0; lag_time_hours is
\* (index of outflow peak - index of inflow peak)*dt/3600 rounded to 2
\* decimals.
C7_AnalysisRounded ==
  StableRouting =>
    /\ RoutingSucceeded
    /\ LET a == result.value.analysis
           I == args.inflow
           o == result.locals.outflow
           peak_in == I[a.peak_inflow_time + 1]
           peak_out == o[a.peak_outflow_time + 1]
       IN  /\ IsFirstMax(I, a.peak_inflow_time)
           /\ IsFirstMax(OnCommonDenominator(o), a.peak_outflow_time)
           /\ a.peak_inflow = 100 * peak_in
           /\ a.peak_outflow = Round2Rat(peak_out)
           /\ IF peak_in = 0
              THEN a.attenuation_percent = 0
              ELSE a.attenuation_percent
                     = Round2Rat([n |-> 100 * (peak_in * peak_out.d
                                                 - peak_out.n),
                                  d |-> peak_in * peak_out.d])
           /\ a.lag_time_hours
                = Round2Rat([n |-> (a.peak_outflow_time - a.peak_inflow_time)
                                     * args.dt,
                             d |-> 3600])

C7_Witness ==
  /\ StableRouting
  /\ RoutingSucceeded
  /\ \E i, k \in 1..Len(args.inflow) :
       /\ i < k
       /\ args.inflow[i] = args.inflow[k]
       /\ \A m \in 1..Len(args.inflow) : args.inflow[m] <= args.inflow[i]
       /\ result.value.analysis.peak_inflow_time = i - 1
  /\ result.value.analysis.attenuation_percent > 0
  /\ result.value.analysis.peak_outflow_time > 0

\* The keys of the dict a successful routing returns, and of its analysis.
RoutingResultKeys ==
  {"inflow", "outflow", "coefficients", "parameters", "analysis", "is_stable",
   "method"}

AnalysisKeys ==
  {"peak_inflow", "peak_outflow", "attenuation_percent", "lag_time_hours",
   "peak_inflow_time", "peak_outflow_time"}

\* C8: when the outflow peaks before the inflow, the routing still returns a
\* result, its lag_time_hours is negative, and the result carries a field
\* that flags the negative lag as a modeling anomaly.
C8_NegativeLagFlagged ==
  (RoutingSucceeded
     /\ result.value.analysis.peak_outflow_time
          < result.value.analysis.peak_inflow_time) =>
    /\ result.value.analysis.lag_time_hours < 0
    /\ \/ DOMAIN result.value # RoutingResultKeys
       \/ DOMAIN result.value.analysis # AnalysisKeys

Balanced == pc = "reservoir_water_balance" /\ result.kind # "pending"

\* dS = (inflow - outflow - evap - seepage) * dt of the call, in units.
StorageChange ==
  (args.inflow - args.outflow - args.evap - args.seepage) * args.dt

\* C9 as stated: the storage is >= 0 in every state and the S_new of each
\* step (hundredths, 5 units each) equals max(0, S_current + dS); here for
\* the steps with dt > 0.
C9_ExactBalance ==
  /\ storage >= 0
  /\ (Balanced /\ args.dt > 0) =>
       /\ result.value.S_new >= 0
       /\ 5 * result.value.S_new = Max0(args.S_current + StorageChange)

\* C9 amended: the storage is >= 0 in every state of every chain of steps,
\* and the S_new of each step equals max(0, S_current + (inflow - outflow
\* - evap - seepage)*dt) rounded to 2 decimals.
C9_NonNegativeRoundedBalance ==
  /\ storage >= 0
  /\ pc = "reservoir_water_balance" => args.S_current = storage
  /\ Balanced =>
       /\ result.kind = "return"
       /\ result.value.S_new >= 0
       /\ result.value.S_new
            = RoundDiv(Max0(args.S_current + StorageChange), 5)

C9_Witness ==
  /\ Balanced
  /\ storage > 0
  /\ args.S_current + StorageChange < 0
  /\ result.value.S_new = 0

\* C10: status is increasing, decreasing or stable as dS is positive,
\* negative or zero; the percent change is dS relative to the prior storage
\* (rounded to 3 decimals) and exactly 0 when the prior storage is 0; no
\* input raises a division by zero.
C10_StatusAndPercent ==
  Balanced =>
    /\ result.kind = "return"
    /\ StorageChange > 0 => result.value.status = "increasing"
    /\ StorageChange < 0 => result.value.status = "decreasing"
    /\ StorageChange = 0 => result.value.status = "stable"
    /\ args.S_current = 0 => result.value.change_percent = 0
    /\ args.S_current > 0 =>
         result.value.change_percent
           = RoundDiv(100000 * StorageChange, args.S_current)

C10_Witness ==
  /\ Balanced
  /\ args.S_current = 0
  /\ StorageChange < 0
  /\ result.value.status = "decreasing"
  /\ result.value.change_percent = 0

Averaged ==
  /\ pc \in {"calculate_basin_rainfall_thiessen", "calculate_basin_rainfall",
             "calculate_thiessen_rainfall"}
  /\ result.kind # "pending"

\* Every station of the observation map has a depth.
NumericDepths ==
  \A s \in DOMAIN args.points_data : args.points_data[s] # None

\* The stations of both maps whose weight is > 0.
Contributing ==
  {s \in DOMAIN args.points_data \cap DOMAIN args.basin_weights :
     args.basin_weights[s] > 0}

ContributingWeight ==
  SumOf([s \in Contributing |-> args.basin_weights[s]])

ContributingDepth ==
  SumOf([s \in Contributing |-> args.points_data[s] * args.basin_weights[s]])

\* The basin average a returned call carries.
ReturnedAverage ==
  CASE pc = "calculate_basin_rainfall_thiessen" -> result.value.basin_avg
    [] pc = "calculate_basin_rainfall" -> result.value
    [] pc = "calculate_thiessen_rainfall" -> result.value.basin_average

\* C11 as stated: each of the three Thiessen functions returns (never
\* raises) sum(depth*weight) / sum(weight) over exactly the stations of both
\* maps with weight > 0, and exactly 0 when that weight sum is 0; stated for
\* observation maps in which every station has a depth.
C11_ThiessenAverage ==
  (Averaged /\ NumericDepths) =>
    /\ result.kind = "return"
    /\ ContributingWeight > 0 =>
         ReturnedAverage.n * ContributingWeight
           = ContributingDepth * ReturnedAverage.d
    /\ ContributingWeight = 0 => ReturnedAverage.n = 0

\* C12 as stated: when the contributing weight W is > 0 the returned average
\* lies between the least and the greatest depth of the contributing
\* stations (inclusive); when W = 0 it is exactly 0.
C12_WithinDepthRange ==
  (Averaged /\ NumericDepths) =>
    /\ ContributingWeight > 0 =>
         \A s \in Contributing :
           /\ (\A t \in Contributing :
                 args.points_data[s] <= args.points_data[t])
                => args.points_data[s] * ReturnedAverage.d
                     <= ReturnedAverage.n
           /\ (\A t \in Contributing :
                 args.points_data[s] >= args.points_data[t])
                => args.points_data[s] * ReturnedAverage.d
                     >= ReturnedAverage.n
    /\ ContributingWeight = 0 => ReturnedAverage.n = 0

Accumulated ==
  pc = "calculate_accumulated_rainfall" /\ result.kind # "pending"

\* The sum of daily[lo .. hi] (Python indices, both ends included).
RECURSIVE WindowSum(_, _, _)
WindowSum(daily, lo, hi) ==
  IF lo > hi THEN 0 ELSE WindowSum(daily, lo, hi - 1) + daily[hi + 1]

\* C13: for every daily series and every window N >= 1 the call returns a
\* series of the same length whose i-th entry is the sum of
\* daily[max(0, i-N+1) .. i] (a window truncated to the available prefix for
\* i < N-1); for N = 1 the result is the input series.
C13_WindowSums ==
  (Accumulated /\ args.days >= 1) =>
    /\ result.kind = "return"
    /\ Len(result.value) = Len(args.daily_rainfall)
    /\ \A i \in 0..(Len(args.daily_rainfall) - 1) :
         result.value[i + 1]
           = WindowSum(args.daily_rainfall,
                       IF i - args.days + 1 > 0 THEN i - args.days + 1 ELSE 0,
                       i)
    /\ args.days = 1 => result.value = args.daily_rainfall

\* A window of 2 days over a series of MaxLen positive depths: the first
\* entry is a truncated window, the later ones are full windows.
C13_Witness ==
  /\ Accumulated
  /\ args.days = 2
  /\ Len(args.daily_rainfall) = MaxLen
  /\ \A j \in 1..MaxLen : args.daily_rainfall[j] = j
  /\ result.value[1] = 1
  /\ result.value[MaxLen] = 2 * MaxLen - 1

NonNegativeSeries ==
  \A j \in 1..Len(args.daily_rainfall) : args.daily_rainfall[j] >= 0

\* C14 as stated: for every daily series, every window N >= 1 and every
\* index i, accumulated[i] >= daily[i], and the two series have the same
\* length.
C14_AccumulatedAtLeastDaily ==
  (Accumulated /\ args.days >= 1) =>
    /\ Len(result.value) = Len(args.daily_rainfall)
    /\ \A j \in 1..Len(args.daily_rainfall) :
         result.value[j] >= args.daily_rainfall[j]

\* C14 amended: the same, for every series of non-negative daily depths.
C14_NonNegativeAccumulatedAtLeastDaily ==
  (Accumulated /\ args.days >= 1 /\ NonNegativeSeries) =>
    /\ result.kind = "return"
    /\ Len(result.value) = Len(args.daily_rainfall)
    /\ \A j \in 1..Len(args.daily_rainfall) :
         result.value[j] >= args.daily_rainfall[j]

\* A non-negative series whose accumulation exceeds the daily depth at one
\* index and equals it at another.
C14_Witness ==
  /\ Accumulated
  /\ args.days >= 2
  /\ NonNegativeSeries
  /\ Len(args.daily_rainfall) = MaxLen
  /\ result.value[1] = args.daily_rainfall[1]
  /\ result.value[MaxLen] > args.daily_rainfall[MaxLen]

Estimated ==
  /\ pc \in {"estimate_discharge_from_rainfall", "estimate_discharge_scs"}
  /\ result.kind # "pending"

CurveNumberInRange == 30 <= args.curve_number /\ args.curve_number <= 100

\* S = 25400/CN - 254 and Ia = 0.2*S of the call, as fractions of CN.
RetentionOfCall ==
  Rat(25400 - 254 * args.curve_number, args.curve_number)

AbstractionOfCall ==
  Rat(25400 - 254 * args.curve_number, 5 * args.curve_number)

\* P - Ia and P - Ia + S.
ExcessOf(P) == RatSub(P, AbstractionOfCall)

DenominatorOf(P) == RatAdd(ExcessOf(P), RetentionOfCall)

\* Q of the claim for the rainfall depth P and the call's curve number.
RunoffDepthOf(P) ==
  IF ExcessOf(P).n <= 0 THEN FromInt(0)
  ELSE RatDiv(RatMul(ExcessOf(P), ExcessOf(P)), DenominatorOf(P))

\* A returned field as a rational: estimate_discharge_from_rainfall returns
\* hundredths (thousandths for the coefficient), estimate_discharge_scs the
\* value itself.
ReturnedDepth(field) ==
  IF pc = "estimate_discharge_from_rainfall"
  THEN Rat(result.value[field], 100)
  ELSE result.value[field]

ReturnedCoefficient ==
  IF pc = "estimate_discharge_from_rainfall"
  THEN Rat(result.value.runoff_coefficient, 1000)
  ELSE result.value.runoff_coefficient

\* C15 as stated: for CN in [30, 100] and every rainfall P the estimator
\* returns S = 25400/CN - 254, Ia = 0.2*S, and the runoff depth Q = 0 when
\* P <= Ia and Q = (P - Ia)^2 / (P - Ia + S) when P > Ia, and the
\* denominator is never zero.
C15_ReturnedRunoffDepth ==
  (Estimated /\ CurveNumberInRange) =>
    /\ result.kind = "return"
    /\ ExcessOf(args.rainfall).n > 0 => DenominatorOf(args.rainfall).n # 0
    /\ ReturnedDepth("potential_retention_s") = RetentionOfCall
    /\ ReturnedDepth("initial_abstraction_ia") = AbstractionOfCall
    /\ ReturnedDepth("runoff") = RunoffDepthOf(args.rainfall)

\* C15 amended: for CN in [30, 100] and every rainfall P both estimators
\* compute S = 25400/CN - 254, Ia = 0.2*S and Q = 0 when P <= Ia,
\* Q = (P - Ia)^2 / (P - Ia + S) when P > Ia, with a denominator > 0;
\* estimate_discharge_scs returns S, Ia and Q themselves and
\* estimate_discharge_from_rainfall returns each rounded to 2 decimals.
C15_RunoffDepthRounded ==
  (Estimated /\ CurveNumberInRange) =>
    /\ result.kind = "return"
    /\ ExcessOf(args.rainfall).n > 0 => DenominatorOf(args.rainfall).n > 0
    /\ result.locals.S = RetentionOfCall
    /\ result.locals.Ia = AbstractionOfCall
    /\ result.locals.runoff = RunoffDepthOf(args.rainfall)
    /\ pc = "estimate_discharge_scs" =>
         /\ result.value.potential_retention_s = RetentionOfCall
         /\ result.value.initial_abstraction_ia = AbstractionOfCall
         /\ result.value.runoff = RunoffDepthOf(args.rainfall)
    /\ pc = "estimate_discharge_from_rainfall" =>
         /\ result.value.potential_retention_s = RoundRat(RetentionOfCall, 2)
         /\ result.value.initial_abstraction_ia
              = RoundRat(AbstractionOfCall, 2)
         /\ result.value.runoff = RoundRat(RunoffDepthOf(args.rainfall), 2)

\* A rainfall above Ia whose runoff depth is not a whole number of
\* hundredths, returned by estimate_discharge_from_rainfall.
C15_Witness ==
  /\ Estimated
  /\ pc = "estimate_discharge_from_rainfall"
  /\ args.curve_number = 70
  /\ ExcessOf(args.rainfall).n > 0
  /\ result.value.runoff > 0
  /\ Rat(result.value.runoff, 100) # RunoffDepthOf(args.rainfall)

\* The runoff depth the call's function returns for the depth P, the other
\* arguments unchanged.
RunoffReturnedFor(P) ==
  IF pc = "estimate_discharge_from_rainfall"
  THEN Rat(estimate_discharge_from_rainfall(P, args.area, args.curve_number,
             args.time_concentration).value.runoff, 100)
  ELSE estimate_discharge_scs(P, args.area, args.curve_number,
         args.time_concentration).value.runoff

\* C16: for a fixed curve number in [30, 100] and a fixed time of
\* concentration the runoff depth is non-decreasing in the rainfall
\* (Q(P1) <= Q(P2) whenever P1 <= P2), and Q = 0 whenever rainfall <= Ia.
C16_RunoffMonotone ==
  (Estimated /\ CurveNumberInRange) =>
    /\ result.kind = "return"
    /\ \A P1 \in RainfallDepths :
         RatLE(P1, args.rainfall) =>
           RatLE(RunoffReturnedFor(P1), ReturnedDepth("runoff"))
    /\ RatLE(args.rainfall, AbstractionOfCall) =>
         ReturnedDepth("runoff").n = 0

\* Two depths above Ia with strictly increasing runoff, and a depth at or
\* below a positive Ia.
C16_Witness ==
  /\ Estimated
  /\ args.curve_number = 70
  /\ \E P1 \in RainfallDepths :
       /\ RatLT(AbstractionOfCall, P1)
       /\ RatLT(P1, args.rainfall)
       /\ RatLT(FromInt(0), RunoffReturnedFor(P1))
       /\ RatLT(RunoffReturnedFor(P1), ReturnedDepth("runoff"))
  /\ \E P0 \in RainfallDepths :
       /\ P0.n > 0
       /\ RatLE(P0, AbstractionOfCall)
       /\ RunoffReturnedFor(P0).n = 0

\* C17 as stated: the returned runoff coefficient equals the returned
\* Q / rainfall, is exactly 0 when the rainfall is 0, and lies in [0, 1] for
\* every rainfall >= 0 and curve number in [30, 100].
C17_CoefficientIsRatio ==
  (Estimated /\ result.kind = "return") =>
    /\ args.rainfall.n > 0 =>
         ReturnedCoefficient = RatDiv(ReturnedDepth("runoff"), args.rainfall)
    /\ args.rainfall.n = 0 => ReturnedCoefficient.n = 0
    /\ (args.rainfall.n >= 0 /\ CurveNumberInRange) =>
         /\ RatLE(FromInt(0), ReturnedCoefficient)
         /\ RatLE(ReturnedCoefficient, FromInt(1))

\* C17 amended: the runoff coefficient is Q / rainfall for the unrounded
\* runoff depth Q, returned as it is by estimate_discharge_scs and rounded to
\* 3 decimals by estimate_discharge_from_rainfall; it is exactly 0 when the
\* rainfall is 0, no call with a curve number in [30, 100] raises, and the
\* returned coefficient lies in [0, 1] for every rainfall >= 0 and curve
\* number in [30, 100].
C17_CoefficientRounded ==
  /\ (Estimated /\ CurveNumberInRange) => result.kind = "return"
  /\ (Estimated /\ result.kind = "return") =>
       /\ args.rainfall.n > 0 =>
            /\ result.locals.runoff_coeff
                 = RatDiv(result.locals.runoff, args.rainfall)
            /\ pc = "estimate_discharge_scs" =>
                 result.value.runoff_coefficient
                   = RatDiv(result.value.runoff, args.rainfall)
            /\ pc = "estimate_discharge_from_rainfall" =>
                 result.value.runoff_coefficient
                   = RoundRat(RatDiv(result.locals.runoff, args.rainfall), 3)
       /\ args.rainfall.n = 0 => ReturnedCoefficient.n = 0
       /\ (args.rainfall.n >= 0 /\ CurveNumberInRange) =>
            /\ RatLE(FromInt(0), ReturnedCoefficient)
            /\ RatLE(ReturnedCoefficient, FromInt(1))

\* A positive coefficient below 1 that estimate_discharge_from_rainfall
\* returns rounded.
C17_Witness ==
  /\ Estimated
  /\ pc = "estimate_discharge_from_rainfall"
  /\ CurveNumberInRange
  /\ args.rainfall.n > 0
  /\ result.value.runoff_coefficient > 0
  /\ result.value.runoff_coefficient < 1000
  /\ Rat(result.value.runoff_coefficient, 1000) # result.locals.runoff_coeff

\* C18 as stated: a call with a curve number outside [30, 100] or a time of
\* concentration <= 0 fails with InvalidParameter and returns no estimate.
C18_InvalidParameterRaised ==
  (Estimated /\ (~CurveNumberInRange \/ args.time_concentration <= 0)) =>
    /\ result.kind = "raise"
    /\ result.exc = "InvalidParameter"

Travelled == pc = "calculate_travel_time" /\ result.kind # "pending"

\* distance > 0, slope > 0, hydraulic_radius > 0 and 0.01 <= n <= 0.20.
TravelParametersInRange ==
  /\ args.distance.n > 0
  /\ args.slope.n > 0
  /\ args.hydraulic_radius.n > 0
  /\ RatLE(Rat(1, 100), args.manning_n)
  /\ RatLE(args.manning_n, Rat(20, 100))

\* C19 as stated: calculate_travel_time raises the invalid-parameter error
\* (ValueError) and returns nothing when distance <= 0, slope <= 0,
\* hydraulic_radius <= 0 or manning_n is outside [0.01, 0.20]; for every
\* input inside the ranges it returns a result whose velocity and travel
\* time are strictly positive.
C19_RejectsOrPositive ==
  Travelled =>
    /\ ~TravelParametersInRange =>
         /\ result.kind = "raise"
         /\ result.exc = "ValueError"
         /\ DOMAIN result = {"kind", "exc", "msg"}
    /\ TravelParametersInRange =>
         /\ result.kind = "return"
         /\ result.value.velocity_m_s > 0
         /\ result.value.travel_time_hours > 0

Estimated_T ==
  pc = "calculate_return_period_gumbel" /\ result.kind # "pending"

\* The number of peaks of the call's series (0 for a missing series).
PeakCount ==
  IF args.historical_data.none THEN 0 ELSE Len(args.historical_data.list)

\* The population variance of the peaks is below 0.01^2:
\* N * sum(h^2) - sum(h)^2 < N^2 for the peaks h in hundredths.
StdBelowHundredth ==
  LET l == args.historical_data.list
      N == Len(l)
      total == SliceSum(l, 0, N)
      squares == SliceSum([j \in 1..N |-> l[j] * l[j]], 0, N)
  IN  N * squares - total * total < N * N

\* C20: the return-period estimator never raises for a sample it cannot
\* compute: with fewer than 3 peaks (an empty or a missing series included)
\* it returns category insufficient_data with return_period None; with 3 or
\* more peaks whose population standard deviation is below 0.01 it returns
\* return_period 1.0, probability 100 and category common, whatever the
\* discharge.
C20_DegenerateSamples ==
  Estimated_T =>
    /\ result.kind = "return"
    /\ PeakCount < 3 =>
         /\ result.value.category = "insufficient_data"
         /\ result.value.return_period = None
    /\ (PeakCount >= 3 /\ StdBelowHundredth) =>
         /\ result.value.return_period = 100
         /\ result.value.probability = 10000
         /\ result.value.category = "common"

\* Three or more peaks that are not all equal, with a standard deviation
\* below 0.01, and a CDF value that would otherwise give an infinite period.
C20_Witness ==
  /\ Estimated_T
  /\ PeakCount >= 3
  /\ StdBelowHundredth
  /\ \E j \in 1..PeakCount :
       args.historical_data.list[j] # args.historical_data.list[1]
  /\ args.F = 100000
  /\ args.discharge > 0
  /\ result.value.return_period = 100

\* The call reached the Gumbel formulas (lines 129-171).
GumbelComputed == Estimated_T /\ PeakCount >= 3 /\ ~StdBelowHundredth

\* The category of a reported return period (hundredths, or Infinity):
\* common below 2, moderate below 10, rare below 50, very_rare below 100,
\* extreme otherwise.
CategoryOfReported(return_period) ==
  IF return_period = Infinity THEN "extreme"
  ELSE IF return_period < 200 THEN "common"
  ELSE IF return_period < 1000 THEN "moderate"
  ELSE IF return_period < 5000 THEN "rare"
  ELSE IF return_period < 10000 THEN "very_rare"
  ELSE "extreme"

\* C21 as stated: for the CDF value F of the call, the result reports
\* T = 1/(1-F) (rounded to 2 decimals) when F < 0.9999 and an infinite T
\* with probability 0 when F >= 0.9999, and its category is the one the
\* thresholds 2, 10, 50, 100 give for the return_period reported in the
\* same result.
C21_CategoryAgreesWithReported ==
  GumbelComputed =>
    /\ result.kind = "return"
    /\ args.F < 99990 =>
         result.value.return_period
           = RoundRat(Rat(100000, 100000 - args.F), 2)
    /\ args.F >= 99990 =>
         /\ result.value.return_period = Infinity
         /\ result.value.probability = 0
    /\ result.value.category = CategoryOfReported(result.value.return_period)


\* The routing call was made with valid, stable parameters on a non-empty
\* inflow series that is zero throughout.
ZeroInflowRouted ==
  /\ pc = "muskingum_cunge_routing"
  /\ result.kind # "pending"
  /\ RoutingValidation(args.K, args.X10, args.dt) = "valid"
  /\ IsStable(Coefficients(args.K, args.X10, args.dt))
  /\ Len(args.inflow) > 0
  /\ \A i \in 1..Len(args.inflow) : args.inflow[i] = 0

\* C22 as stated: for every degenerate in-domain input the core function
\* returns its fallback value without raising, and no numeric field of the
\* result is infinite: a zero contributing weight gives the average 0, zero
\* rainfall gives the runoff coefficient 0, a zero prior storage gives the
\* change percent 0, a standard deviation below 0.01 gives the period 1.0, a
\* CDF value F >= 0.9999 gives a finite return period with probability 0, a
\* zero cross-section gives velocity, celerity and ratio 0, and a zero inflow
\* peak gives the attenuation 0.
C22_DegenerateFallbacks ==
  /\ (Averaged /\ NumericDepths /\ ContributingWeight = 0
        /\ \A s \in DOMAIN args.basin_weights : args.basin_weights[s] >= 0) =>
       (result.kind = "return" /\ ReturnedAverage.n = 0)
  /\ (Estimated /\ CurveNumberInRange /\ args.rainfall.n = 0
        /\ args.time_concentration > 0) =>
       /\ result.kind = "return"
       /\ result.locals.runoff_coeff.n = 0
       /\ result.locals.peak_discharge.n = 0
  /\ (pc = "reservoir_water_balance" /\ result.kind # "pending"
        /\ args.S_current = 0) =>
       (result.kind = "return" /\ result.value.change_percent = 0)
  /\ (Estimated_T /\ PeakCount >= 3) =>
       /\ result.kind = "return"
       /\ StdBelowHundredth => result.value.return_period = 100
       /\ (~StdBelowHundredth /\ args.F >= 99990) =>
            /\ result.value.probability = 0
            /\ result.value.return_period # Infinity
  /\ (pc = "calculate_flood_wave_celerity" /\ result.kind # "pending"
        /\ args.width * args.depth = 0) =>
       /\ result.kind = "return"
       /\ result.value.mean_velocity = 0
       /\ result.value.wave_celerity = 0
       /\ result.value.ratio_c_to_v = 0
  /\ ZeroInflowRouted =>
       /\ result.kind = "return"
       /\ result.value.analysis.attenuation_percent = 0


\* C23 as stated: the recommendations are a function of the severity alone:
\* every other call of classify_flood_severity that returns the severity of
\* this call returns the same list of recommendations, whatever its
\* thresholds, rainfall and accumulated rainfall are, for each of the tiers
\* safe, watch, warning and danger.
C23_RecommendationsBySeverity ==
  Classified =>
    \A other \in SeverityArgs :
      LET r == classify_flood_severity(other.rainfall, other.accumulated_3d,
                                       other.thresholds)
      IN  r.severity = result.value.severity =>
            r.recommendations = result.value.recommendations


\* The pipeline has analysed a basin.
Analysed == pc = "analyze_basin_forecast" /\ result.kind # "pending"

\* The five-day storm on one station of weight 1, with its five dates,
\* against the HONG thresholds.
StormOnHong ==
  /\ Analysed
  /\ args.precipitation = StormSeries
  /\ args.weight = 1
  /\ Len(args.dates) = Len(StormSeries)
  /\ args.thresholds = FLOOD_THRESHOLDS.HONG

\* C24: on a single station of weight 1.0 with daily depths
\* [10, 20, 150, 30, 10] the basin series equals the input, the 3-day
\* accumulation is [10, 30, 180, 200, 190] (in the pipeline and in
\* calculate_accumulated_rainfall), the classification against the HONG
\* thresholds is 'warning' on day 3 and below warning on the other four days
\* (in the pipeline and in classify_flood_severity), and the warnings list
\* contains exactly day 3.
C24_StormOnHong ==
  StormOnHong =>
    LET days == result.value.forecast_days
        accumulated == calculate_accumulated_rainfall(StormSeries, 3)
    IN  /\ result.kind = "return"
        /\ result.locals.basin_rainfall = StormSeries
        /\ accumulated = <<10, 30, 180, 200, 190>>
        /\ Len(days) = 5
        /\ \A j \in 1..5 :
             /\ days[j].daily_rain = 100 * StormSeries[j]
             /\ days[j].accumulated_3d = 100 * accumulated[j]
             /\ IF j = 3 THEN days[j].risk_level = "CANH BAO"
                ELSE days[j].risk_level \in {"AN TOAN", "THEO DOI"}
             /\ LET severity ==
                      classify_flood_severity(StormSeries[j], accumulated[j],
                        FLOOD_THRESHOLDS.HONG).severity
                IN  IF j = 3 THEN severity = "warning"
                    ELSE severity \in {"safe", "watch"}
        /\ result.value.warnings = <<days[3]>>
        /\ days[3].date = 3

C24_Witness ==
  /\ StormOnHong
  /\ result.kind = "return"
  /\ Len(result.value.warnings) = 1
  /\ result.value.warnings[1].daily_rain = 15000


\* What the call of a thread returns when it runs alone on the shared list.
AloneResult(call) ==
  CASE call.fn = "muskingum_cunge_routing" ->
         muskingum_cunge_routing(storage.series, call.K, call.X10, call.dt)
    [] call.fn = "calculate_accumulated_rainfall" ->
         Return(calculate_accumulated_rainfall(storage.series, call.days))
    [] call.fn = "estimate_discharge_from_rainfall" ->
         estimate_discharge_from_rainfall(call.rainfall, call.area,
           CN_VALUES.agricultural, call.time_concentration)

\* Every finished call has the result of the call run alone, and two
\* finished calls with equal inputs have equal results.
ResultsAsAlone ==
  /\ \A t \in Threads :
       pc[t] = "done" => result[t] = AloneResult(args[t])
  /\ \A t, u \in Threads :
       (pc[t] = "done" /\ pc[u] = "done" /\ args[t] = args[u]) =>
         result[t] = result[u]

MinInflow ==
  CHOOSE m \in {args.inflow[i] : i \in 1..Len(args.inflow)} :
    \A i \in 1..Len(args.inflow) : m <= args.inflow[i]

MaxInflow ==
  CHOOSE m \in {args.inflow[i] : i \in 1..Len(args.inflow)} :
    \A i \in 1..Len(args.inflow) : m >= args.inflow[i]

\* C26: for stable coefficients and a non-empty inflow series every outflow
\* value, unrounded and as returned, lies between the least and the greatest
\* inflow value; so the outflow peak is at most the inflow peak, the
\* attenuation percent is >= 0 for a positive inflow peak, and a constant
\* inflow is routed to the same constant outflow.
C26_OutflowWithinInflowRange ==
  RoutingSucceeded =>
    /\ Len(result.value.outflow) = Len(args.inflow)
    /\ \A i \in 1..Len(args.inflow) :
         /\ RatLE(FromInt(MinInflow), result.locals.outflow[i])
         /\ RatLE(result.locals.outflow[i], FromInt(MaxInflow))
         /\ 100 * MinInflow <= result.value.outflow[i]
         /\ result.value.outflow[i] <= 100 * MaxInflow
    /\ result.value.analysis.peak_outflow <= result.value.analysis.peak_inflow
    /\ result.value.analysis.peak_inflow = 100 * MaxInflow
    /\ MaxInflow > 0 =>
         /\ result.locals.attenuation.n >= 0
         /\ result.value.analysis.attenuation_percent >= 0
    /\ MinInflow = MaxInflow =>
         /\ result.value.outflow = result.value.inflow
         /\ \A i \in 1..Len(args.inflow) :
              result.locals.outflow[i].n
                = MaxInflow * result.locals.outflow[i].d

\* A routed series of full length whose peak is attenuated: the outflow peak
\* is strictly below the inflow peak and above the least inflow.
C26_Witness ==
  /\ RoutingSucceeded
  /\ Len(args.inflow) = MaxLen
  /\ MinInflow < MaxInflow
  /\ result.value.analysis.peak_outflow < 100 * MaxInflow
  /\ result.value.analysis.peak_outflow > 100 * MinInflow
  /\ result.value.analysis.attenuation_percent > 0


\* The order of the four tiers.
SeverityRank(severity) ==
  CASE severity = "safe" -> 0
    [] severity = "watch" -> 1
    [] severity = "warning" -> 2
    [] severity = "danger" -> 3

\* watch <= warning <= danger in the daily and in the accumulated column.
Ordered(thresholds) ==
  /\ thresholds.watch.daily <= thresholds.warning.daily
  /\ thresholds.warning.daily <= thresholds.danger.daily
  /\ thresholds.watch.accumulated_3d <= thresholds.warning.accumulated_3d
  /\ thresholds.warning.accumulated_3d <= thresholds.danger.accumulated_3d

SeverityOfRisk(risk_level) ==
  CASE risk_level = "AN TOAN" -> "safe"
    [] risk_level = "THEO DOI" -> "watch"
    [] risk_level = "CANH BAO" -> "warning"
    [] risk_level = "NGUY HIEM" -> "danger"

\* C28 as stated: for every daily series, dates list of the same length and
\* threshold set, the accumulated_3d of day i in analyze_basin_forecast is
\* calculate_accumulated_rainfall(series, 3)[i], and the risk level of day i
\* corresponds to the severity classify_flood_severity returns for the same
\* daily value, accumulated value and thresholds, days with a daily rainfall
\* of 0 included.
C28_PipelineMatchesCore ==
  (Analysed /\ Len(args.dates) = Len(args.precipitation)) =>
    LET series == result.locals.basin_rainfall
        days == result.value.forecast_days
        accumulated == calculate_accumulated_rainfall(series, 3)
    IN  /\ Len(days) = Len(series)
        /\ \A i \in 1..Len(series) :
             /\ days[i].accumulated_3d = 100 * accumulated[i]
             /\ SeverityOfRisk(days[i].risk_level)
                  = classify_flood_severity(series[i], accumulated[i],
                      args.thresholds).severity


\* rainfall >= 0, area >= 0, curve number in [30, 100] and Tc > 0.
ScsInDomain ==
  /\ args.rainfall.n >= 0
  /\ args.area >= 0
  /\ CurveNumberInRange
  /\ args.time_concentration > 0

Holds(j) ==
  \/ pc[j] = "record_current_task"
  \/ result[j].semaphore_acquired /\ result[j].releases = 0

\* Job j is in the section that follows a successful acquire.
InHeavySection(j) ==
  result[j].semaphore_acquired /\ pc[j] \in {"heavy", "save", "except"}

\* C30: in every interleaving of alerts jobs and AI-analysis jobs at most one
\* job is inside its heavy section holding the global semaphore; a job that
\* has ended released the semaphore exactly once if it had acquired it (after
\* success, after an exception, after an early return) and never if it had
\* not (a timed-out wait included); the semaphore's counter stays within
\* {0, 1} and is 1 whenever no job holds it, in particular when no job is
\* running.
C30_OneHeavyJob ==
  /\ Cardinality({j \in Jobs : InHeavySection(j)}) <= 1
  /\ Cardinality({j \in Jobs : Holds(j)}) <= 1
  /\ storage.semaphore \in {0, 1}
  /\ storage.semaphore = 1 - Cardinality({j \in Jobs : Holds(j)})
  /\ \A j \in Jobs :
       /\ result[j].releases <= 1
       /\ result[j].releases = 1 => result[j].semaphore_acquired
       /\ pc[j] = "done" =>
            result[j].releases = IF result[j].semaphore_acquired THEN 1 ELSE 0
  /\ (\A j \in Jobs : pc[j] \in {"start", "done"}) => storage.semaphore = 1

\* Every job has ended: one after holding the semaphore and failing inside
\* its heavy section, one after timing out on the semaphore, one after a
\* cache hit.
C30_Witness ==
  /\ \A j \in Jobs : pc[j] = "done"
  /\ \E j \in Jobs :
       /\ result[j].semaphore_acquired
       /\ result[j].status = "failed"
       /\ result[j].releases = 1
  /\ \E j \in Jobs :
       /\ ~result[j].semaphore_acquired
       /\ args[j] = "alerts"
       /\ result[j].status = "failed"
  /\ \E j \in Jobs :
       /\ ~result[j].semaphore_acquired
       /\ args[j] = "ai"
       /\ result[j].status = "completed"
  /\ storage.semaphore = 1

====
